---- MODULE Spec2Model ----
(***************************************************************************)
(* A model of nestjs-crud's request pipeline:                              *)
(*   - RequestQueryParser (packages/crud-request/src/request-query.parser) *)
(*   - CrudRequestInterceptor (the request assembler)                      *)
(*   - TypeOrmCrudService (the condition compiler)                         *)
(*                                                                         *)
(* JavaScript values are tagged records, so that objects keep the order of *)
(* their keys and arrays, objects and scalars can be told apart.  Strings  *)
(* the code inspects character by character (field names, SQL fragments)   *)
(* are sequences of one-character strings.                                 *)
(***************************************************************************)
EXTENDS Integers, Sequences, FiniteSets, TLC

VARIABLES
  req,        \* the request object: query, params, user
  route,      \* what getCrudInfo yields for the route: ctrlOptions, crudOptions
  attached,   \* req[PARSED_CRUD_REQUEST_KEY]
  result,     \* how the last intercept() ended
  calls,      \* per request: how often the parser, the hooks and next.handle() ran
  trace,      \* per request: what the last computing intercept() handed to the hooks
  lastIndex,            \* the lastIndex of the four patterns of sqlInjectionRegEx
  entityRelationsHash,  \* the relations getRelationMetadata has cached
  queryBuilder,  \* the query builder of the last service call
  outcome,    \* how the last service call ended
  crudReq,    \* the parsed request of the last service call
  served,     \* service calls so far
  routeOptions,  \* the merged options object of the route, shared by its requests
  repo,       \* the storage: the rows a fetch finds, the storage call that fails
  operation,  \* the last operation of the service: storage calls, result, error
  input,      \* the arguments of the function under study
  output      \* what the function returned, once it was applied

ivars == <<req, route, attached, result, calls, trace>>
svars == <<lastIndex, entityRelationsHash, queryBuilder, outcome, crudReq, served>>
cvars == <<routeOptions, repo, operation>>
pvars == <<input, output>>

(***************************************************************************)
(* Bounds of the model.                                                    *)
(***************************************************************************)
MaxFilters == 2      \* longest `filter` / `or` list a request carries
MaxIntercepts == 2   \* interceptor invocations on one request object
MaxRequests == 3     \* requests one service instance handles
MaxOperations == 2   \* operations one service instance runs on the storage

(***************************************************************************)
(* JavaScript values.                                                      *)
(***************************************************************************)
Undef == [t |-> "undef"]
Null == [t |-> "null"]
Num(n) == [t |-> "num", n |-> n]
Str(s) == [t |-> "str", s |-> s]
Bool(b) == [t |-> "bool", b |-> b]
Arr(items) == [t |-> "arr", items |-> items]
Obj(kv) == [t |-> "obj", kv |-> kv]
P(k, v) == [k |-> k, v |-> v]
Obj1(k, v) == Obj(<<P(k, v)>>)

isNil(v) == v.t \in {"undef", "null"}
isObject(v) == v.t \in {"obj", "arr"}
isFunction(v) == v.t = "fn"
isStringFull(v) == v.t = "str" /\ v.s # ""
isArrayFull(v) == v.t = "arr" /\ Len(v.items) > 0
hasLength(seq) == Len(seq) > 0
Truthy(v) ==
  CASE v.t \in {"undef", "null"} -> FALSE
    [] v.t = "num" -> v.n # 0
    [] v.t = "str" -> v.s # ""
    [] v.t = "bool" -> v.b
    [] OTHER -> TRUE

MapSeq(Op(_), seq) == [i \in 1..Len(seq) |-> Op(seq[i])]

\* `const v = <value>; <rest>`: the rest of a function body, given a value
Then(v, Rest(_)) == Rest(v)

(***************************************************************************)
(* Exceptions.                                                             *)
(***************************************************************************)
NoErr == [ex |-> "none", msg |-> ""]
RequestQueryException(msg) == [ex |-> "RequestQueryException", msg |-> msg]
Error(msg) == [ex |-> "Error", msg |-> msg]
BadRequestException(msg) == [ex |-> "BadRequestException", msg |-> msg]

(***************************************************************************)
(* Texts that reach the parser, and the JavaScript built-ins applied to    *)
(* them.  JSON.parse and String.split are given by their value on each     *)
(* text a request of the model can carry.                                  *)
(***************************************************************************)
TxtStatusEq1 == "{\"status\":{\"$eq\":1}}"
TxtEmptyObj == "{}"
TxtBadJson == "{bad"
TxtFive == "5"

JSONParse(text) ==
  CASE text = TxtStatusEq1 -> [ok |-> TRUE, val |-> Obj1("status", Obj1("$eq", Num(1)))]
    [] text = TxtEmptyObj -> [ok |-> TRUE, val |-> Obj(<<>>)]
    [] text = "null" -> [ok |-> TRUE, val |-> Null]
    [] text = "1" -> [ok |-> TRUE, val |-> Num(1)]
    [] text = "2" -> [ok |-> TRUE, val |-> Num(2)]
    [] text = "5" -> [ok |-> TRUE, val |-> Num(5)]
    [] text = "1.0" -> [ok |-> TRUE, val |-> Num(1)]
    [] OTHER -> [ok |-> FALSE, val |-> Undef]   \* SyntaxError

\* value.split(delimStr), delimStr = ','
SplitComma(text) ==
  CASE text = "1,2" -> <<"1", "2">>
    [] OTHER -> <<text>>

isDateString(text) == text \in {"2020-01-01"}
Date(text) == [t |-> "date", s |-> text]

\* crud-util hasValue: a full string, number, boolean or date, or an array of such
isValue(v) == isStringFull(v) \/ v.t \in {"num", "bool", "date"}
hasValue(v) ==
  IF isArrayFull(v) THEN \A i \in 1..Len(v.items) : isValue(v.items[i]) ELSE isValue(v)

(***************************************************************************)
(* RequestQueryParser.                                                     *)
(***************************************************************************)
parseValue(val) ==
  LET j == JSONParse(val) IN
  IF j.ok
  THEN IF j.val.t # "date" /\ isObject(j.val) THEN Str(val)
       ELSE IF j.val.t = "num" /\ ToString(j.val.n) # val THEN Str(val)
       ELSE j.val
  ELSE IF isDateString(val) THEN Date(val) ELSE Str(val)

\* vals is a text, or the list of texts value.split(',') gave
parseValues(isList, text) ==
  IF isList THEN Arr(MapSeq(parseValue, SplitComma(text))) ELSE parseValue(text)

\* a parser that takes any JSON text as a search
parseSearchQueryParamAnyJson(d) ==
  IF isNil(d) THEN [err |-> NoErr, val |-> Undef]
  ELSE [err |-> NoErr, val |-> JSONParse(d.s).val]

parseSearchQueryParam(d) ==
  IF isNil(d) THEN [err |-> NoErr, val |-> Undef]
  ELSE LET j == JSONParse(d.s) IN
       IF j.ok /\ isObject(j.val)
       THEN [err |-> NoErr, val |-> j.val]
       ELSE [err |-> RequestQueryException("Invalid search param. JSON expected"),
             val |-> Undef]

\* The operators validateCondition accepts: the deprecated names and the $ names.
DeprecatedOperators ==
  {"eq", "ne", "gt", "lt", "gte", "lte", "starts", "ends", "cont", "excl",
   "in", "notin", "isnull", "notnull", "between"}
CondOperators ==
  {"$eq", "$ne", "$gt", "$lt", "$gte", "$lte", "$starts", "$ends", "$cont",
   "$excl", "$in", "$notin", "$isnull", "$notnull", "$between", "$eqL", "$neL",
   "$startsL", "$endsL", "$contL", "$exclL", "$inL", "$notinL", "$contArr",
   "$intersectsArr"}

\* customOperators: a set of [name, isArray]
CustomNames(customOperators) == {c.name : c \in customOperators}

validateCondition(condition, cond, customOperators) ==
  IF condition.field = ""
  THEN RequestQueryException("Invalid field type in " \o cond \o " condition. String expected")
  ELSE IF condition.operator \notin
            (DeprecatedOperators \cup CondOperators \cup CustomNames(customOperators))
  THEN RequestQueryException("Invalid comparison operator")
  ELSE NoErr

isArrayValueOp(operator, customOperators) ==
  operator \in {"in", "notin", "between", "$in", "$notin", "$between", "$inL",
                "$notinL", "$contArr", "$intersectsArr"}
    \cup {c.name : c \in {x \in customOperators : x.isArray}}

isEmptyValueOp(operator) == operator \in {"isnull", "notnull", "$isnull", "$notnull"}

\* data is the text `field||operator||value`, given as its parts data.split('||')
conditionParser(cond, customOperators, data) ==
  LET field == data[1]
      operator == IF Len(data) >= 2 THEN data[2] ELSE ""
      text == IF Len(data) >= 3 THEN data[3] ELSE ""
  IN Then([field |-> field, operator |-> operator,
           value |-> parseValues(isArrayValueOp(operator, customOperators), text)],
          LAMBDA condition :
            IF ~isEmptyValueOp(condition.operator) /\ ~hasValue(condition.value)
            THEN [err |-> RequestQueryException("Invalid " \o cond \o " value"),
                  val |-> condition]
            ELSE [err |-> validateCondition(condition, cond, customOperators),
                  val |-> condition])

\* parseQueryParam(type, conditionParser): every value of the parameter parsed
\* in order; the first exception ends the parse
RECURSIVE parseConditions(_, _, _)
parseConditions(cond, customOperators, raws) ==
  IF raws = <<>> THEN [err |-> NoErr, val |-> <<>>]
  ELSE Then(conditionParser(cond, customOperators, Head(raws)), LAMBDA one :
         IF one.err # NoErr THEN [err |-> one.err, val |-> <<>>]
         ELSE Then(parseConditions(cond, customOperators, Tail(raws)), LAMBDA rest :
                IF rest.err # NoErr THEN [err |-> rest.err, val |-> <<>>]
                ELSE [err |-> NoErr, val |-> <<one.val>> \o rest.val]))

\* A fresh parser (RequestQueryParser.create()).
NewParser ==
  [search |-> Undef, filter |-> <<>>, or |-> <<>>, paramsFilter |-> <<>>,
   authPersist |-> Undef, classTransformOptions |-> Undef]

\* query: [search, filter, or]; an absent parameter is Undef / the empty list
paramNames(query) ==
  (IF isNil(query.search) THEN {} ELSE {"s"})
    \cup (IF query.filter = <<>> THEN {} ELSE {"filter"})
    \cup (IF query.or = <<>> THEN {} ELSE {"or"})

parseQuery(parser, query, customOperators) ==
  IF paramNames(query) = {} THEN [err |-> NoErr, parser |-> parser]
  ELSE
    Then(parseSearchQueryParam(query.search), LAMBDA s :
      IF s.err # NoErr THEN [err |-> s.err, parser |-> parser]
      ELSE IF isNil(s.val)
      THEN Then(parseConditions("filter", customOperators, query.filter), LAMBDA f :
             IF f.err # NoErr
             THEN [err |-> f.err, parser |-> [parser EXCEPT !.search = s.val]]
             ELSE Then(parseConditions("or", customOperators, query.or), LAMBDA o :
                    IF o.err # NoErr
                    THEN [err |-> o.err,
                          parser |-> [parser EXCEPT !.search = s.val, !.filter = f.val]]
                    ELSE [err |-> NoErr,
                          parser |-> [parser EXCEPT !.search = s.val, !.filter = f.val,
                                                    !.or = o.val]]))
      ELSE [err |-> NoErr, parser |-> [parser EXCEPT !.search = s.val]])

\* request-query.validator: validateParamOption, validateNumeric, validateUUID
validateParamOption(options, name) ==
  IF name \notin DOMAIN options
  THEN RequestQueryException("Invalid param option in Crud")
  ELSE NoErr

validateNumeric(val, num) ==
  IF val.t # "num"
  THEN RequestQueryException("Invalid " \o num \o ". Number expected")
  ELSE NoErr

isUUIDText(text) == text \in {"6f0b1a3c-0000-4000-8000-000000000001"}

validateUUID(val, name) ==
  IF ~(val.t = "str" /\ isUUIDText(val.s))
  THEN RequestQueryException("Invalid param " \o name \o ". UUID string expected")
  ELSE NoErr

\* a paramParser that does not drop the disabled parameters
paramParserKeepsDisabled(params, options, i) ==
  LET name == params.kv[i].k
      check == validateParamOption(options, name)
  IN IF check # NoErr THEN [err |-> check, val |-> Undef]
     ELSE LET option == options[name]
              raw == params.kv[i].v
              value == IF option.type = "number" THEN parseValue(raw.s) ELSE raw
              typed == CASE option.type = "number" -> validateNumeric(value, "param " \o name)
                         [] option.type = "uuid" -> validateUUID(value, name)
                         [] OTHER -> NoErr
          IN IF typed # NoErr THEN [err |-> typed, val |-> Undef]
             ELSE [err |-> NoErr,
                   val |-> [field |-> option.field, operator |-> "$eq", value |-> value]]

\* params: the route parameters, an object name -> text; options: name -> descriptor
paramParser(params, options, i) ==
  LET name == params.kv[i].k
      check == validateParamOption(options, name)
  IN IF check # NoErr THEN [err |-> check, val |-> Undef]
     ELSE LET option == options[name]
              raw == params.kv[i].v
              value == IF option.type = "number" THEN parseValue(raw.s) ELSE raw
              typed == CASE option.type = "number" -> validateNumeric(value, "param " \o name)
                         [] option.type = "uuid" -> validateUUID(value, name)
                         [] OTHER -> NoErr
          IN IF option.disabled THEN [err |-> NoErr, val |-> Undef]
             ELSE IF typed # NoErr THEN [err |-> typed, val |-> Undef]
             ELSE [err |-> NoErr,
                   val |-> [field |-> option.field, operator |-> "$eq", value |-> value]]

\* paramNames.map(paramParser).filter(Boolean), from parameter i on
RECURSIVE parseParamsFrom(_, _, _)
parseParamsFrom(params, options, i) ==
  IF i > Len(params.kv) THEN [err |-> NoErr, val |-> <<>>]
  ELSE Then(paramParser(params, options, i), LAMBDA one :
         IF one.err # NoErr THEN [err |-> one.err, val |-> <<>>]
         ELSE Then(parseParamsFrom(params, options, i + 1), LAMBDA rest :
                IF rest.err # NoErr THEN [err |-> rest.err, val |-> <<>>]
                ELSE [err |-> NoErr,
                      val |-> (IF one.val = Undef THEN <<>> ELSE <<one.val>>)
                                \o rest.val]))

parseParams(parser, params, options) ==
  IF isObject(params) /\ hasLength(params.kv)
  THEN Then(parseParamsFrom(params, options, 1), LAMBDA r :
         IF r.err # NoErr THEN [err |-> r.err, parser |-> parser]
         ELSE [err |-> NoErr, parser |-> [parser EXCEPT !.paramsFilter = r.val]])
  ELSE [err |-> NoErr, parser |-> parser]

setAuthPersist(parser, persist) ==
  [parser EXCEPT !.authPersist = IF Truthy(persist) THEN persist ELSE Obj(<<>>)]

setClassTransformOptions(parser, options) ==
  [parser EXCEPT !.classTransformOptions = IF Truthy(options) THEN options ELSE Obj(<<>>)]

\* a conversion that keeps the value of every operator
convertFilterToSearchKeepValue(filter) ==
  Obj1(filter.field, Obj1(filter.operator, filter.value))

convertFilterToSearch(filter) ==
  Obj1(filter.field,
       Obj1(filter.operator,
            IF filter.operator \in {"isnull", "notnull"} THEN Bool(TRUE) ELSE filter.value))

(***************************************************************************)
(* The hooks a route declares.  A hook is a function of the application;   *)
(* Fn(kind) stands for one, and Apply* gives what each kind does.          *)
(***************************************************************************)
Fn(kind) == [t |-> "fn", fn |-> kind]

TenantCond == Obj1("status", Obj1("$ne", Num(2)))
StaticCond == Obj1("status", Obj1("$notnull", Bool(TRUE)))
AuthOrCond == Obj1("owner", Obj1("$eq", Num(7)))
AuthFilterCond == Obj1("owner", Obj1("$in", Arr(<<Num(7), Num(8)>>)))
PersistObj == Obj1("owner", Num(7))
UserObj == Obj1("id", Num(7))

\* CrudOptions.query.filter as a function (search, getMany) => SCondition | void
ApplyFilterFn(kind, search, getMany) ==
  CASE kind = "pin" -> [err |-> NoErr, val |-> TenantCond]
    [] kind = "merge" ->
         [err |-> NoErr,
          val |-> IF isNil(search) THEN TenantCond
                  ELSE Obj1("$and", Arr(<<search, TenantCond>>))]
    [] kind = "void" -> [err |-> NoErr, val |-> Undef]
    [] OTHER -> [err |-> Error("filter hook failed"), val |-> Undef]

\* CrudOptions.auth.or / auth.filter / auth.persist: (user) => value
ApplyAuthFn(kind, cond, user) ==
  CASE kind = "cond" -> [err |-> NoErr, val |-> cond]
    [] kind = "void" -> [err |-> NoErr, val |-> Undef]
    [] OTHER -> [err |-> Error("auth hook failed"), val |-> Undef]

(***************************************************************************)
(* CrudRequestInterceptor.                                                 *)
(***************************************************************************)
\* CrudBaseInterceptor.getCrudInfo: the options of the controller, or the
\* empty options when the controller declares none
getCrudInfo(ctrlOptions) ==
  [ctrlOptions |-> ctrlOptions,
   crudOptions |-> IF isNil(ctrlOptions)
                   THEN [t |-> "options", query |-> [filter |-> Undef],
                         params |-> <<>>, auth |-> Undef, action |-> "Read-All"]
                   ELSE ctrlOptions,
   action |-> IF isNil(ctrlOptions) THEN "Read-All" ELSE ctrlOptions.action]

\* an assembler that parses the route parameters and leaves them out
getParamsSearchLeftOut(parser, crudOptions, params) ==
  IF Truthy(params)
  THEN Then(parseParams(parser, params, crudOptions.params), LAMBDA r :
         [err |-> r.err, parser |-> r.parser, val |-> <<>>])
  ELSE [err |-> NoErr, parser |-> parser, val |-> <<>>]

getParamsSearch(parser, crudOptions, params) ==
  IF Truthy(params)
  THEN Then(parseParams(parser, params, crudOptions.params), LAMBDA r :
         [err |-> r.err, parser |-> r.parser,
          val |-> IF r.err = NoErr /\ hasLength(r.parser.paramsFilter)
                  THEN MapSeq(convertFilterToSearch, r.parser.paramsFilter)
                  ELSE <<>>])
  ELSE [err |-> NoErr, parser |-> parser, val |-> <<>>]

\* lines 109-145: the client's search, from `search` or from `filter` and `or`
clientSearch(parser) ==
  IF Truthy(parser.search) THEN <<parser.search>>
  ELSE IF hasLength(parser.filter) /\ hasLength(parser.or)
  THEN IF Len(parser.filter) = 1 /\ Len(parser.or) = 1
       THEN <<Obj1("$or", Arr(<<convertFilterToSearch(parser.filter[1]),
                                convertFilterToSearch(parser.or[1])>>))>>
       ELSE <<Obj1("$or",
                   Arr(<<Obj1("$and", Arr(MapSeq(convertFilterToSearch, parser.filter))),
                         Obj1("$and", Arr(MapSeq(convertFilterToSearch, parser.or)))>>))>>
  ELSE IF hasLength(parser.filter)
  THEN MapSeq(convertFilterToSearch, parser.filter)
  ELSE IF hasLength(parser.or)
  THEN IF Len(parser.or) = 1
       THEN <<convertFilterToSearch(parser.or[1])>>
       ELSE <<Obj1("$or", Arr(MapSeq(convertFilterToSearch, parser.or)))>>
  ELSE <<>>

\* lines 105-107: query.filter as a list of QueryFilter or as one condition
optionsFilter(filter) ==
  IF filter.t = "filters" /\ hasLength(filter.items)
  THEN MapSeq(convertFilterToSearch, filter.items)
  ELSE <<IF Truthy(filter) THEN filter ELSE Obj(<<>>)>>

\* fn: whether the filter hook ran, and the search it was given
getSearch(parser, crudOptions, action, params) ==
  LET filter == crudOptions.query.filter
      noHook == [ran |-> FALSE, arg |-> Undef]
  IN Then(getParamsSearch(parser, crudOptions, params), LAMBDA ps :
       IF ps.err # NoErr
       THEN [err |-> ps.err, parser |-> ps.parser, val |-> <<>>, fn |-> noHook]
       ELSE IF isFunction(filter)
       THEN Then(ApplyFilterFn(filter.fn, ps.parser.search, action = "Read-All"),
                 LAMBDA r :
                   [err |-> r.err, parser |-> ps.parser,
                    val |-> IF r.err = NoErr
                            THEN ps.val \o <<IF Truthy(r.val) THEN r.val ELSE Obj(<<>>)>>
                            ELSE <<>>,
                    fn |-> [ran |-> TRUE, arg |-> ps.parser.search]])
       ELSE [err |-> NoErr, parser |-> ps.parser,
             val |-> ps.val \o optionsFilter(filter) \o clientSearch(ps.parser),
             fn |-> noHook])

\* ran: which of the auth hooks were called
getAuth(parser, crudOptions, request) ==
  LET a == crudOptions.auth
      none == [or |-> Undef, filter |-> Undef, auth |-> Undef]
      quiet == [or |-> FALSE, filter |-> FALSE, persist |-> FALSE]
      userOrRequest == request.user
      principal == IF Truthy(request.user)
                      /\ (request.user.t = "obj" => Len(request.user.kv) > 0)
                   THEN request.user ELSE Undef
      skipped == [err |-> NoErr, val |-> Undef]
  IN IF ~Truthy(a)
     THEN [err |-> NoErr, parser |-> parser, auth |-> none, ran |-> quiet]
     ELSE
       Then(IF a.or # "none" THEN ApplyAuthFn(a.or, AuthOrCond, userOrRequest)
            ELSE skipped, LAMBDA o :
       IF o.err # NoErr
       THEN [err |-> o.err, parser |-> parser, auth |-> none,
             ran |-> [quiet EXCEPT !.or = TRUE]]
       ELSE
       Then(a.filter # "none" /\ ~Truthy(o.val), LAMBDA callFilter :
       Then(IF callFilter THEN ApplyAuthFn(a.filter, AuthFilterCond, userOrRequest)
            ELSE skipped, LAMBDA f :
       IF f.err # NoErr
       THEN [err |-> f.err, parser |-> parser, auth |-> none,
             ran |-> [or |-> a.or # "none", filter |-> TRUE, persist |-> FALSE]]
       ELSE
       Then(IF a.persist # "none" THEN ApplyAuthFn(a.persist, PersistObj, userOrRequest)
            ELSE skipped, LAMBDA p :
       IF p.err # NoErr
       THEN [err |-> p.err, parser |-> parser, auth |-> none,
             ran |-> [or |-> a.or # "none", filter |-> callFilter, persist |-> TRUE]]
       ELSE [err |-> NoErr,
             parser |-> setClassTransformOptions(
                          IF a.persist # "none" THEN setAuthPersist(parser, p.val)
                          ELSE parser,
                          Obj(<<>>)),
             auth |-> [or |-> o.val,
                       filter |-> IF callFilter
                                  THEN (IF Truthy(f.val) THEN f.val ELSE Obj(<<>>))
                                  ELSE Undef,
                       auth |-> principal],
             ran |-> [or |-> a.or # "none", filter |-> callFilter,
                      persist |-> a.persist # "none"]]))))

getCrudRequest(parser, crudOptions, auth) ==
  [t |-> "CrudRequest", parsed |-> parser, options |-> crudOptions, auth |-> auth]

\* The body of intercept()'s `if (!req[PARSED_CRUD_REQUEST_KEY])`: what it
\* attaches, or the exception that leaves it, and which collaborators ran.
assemble(request, ctrlOptions) ==
  LET info == getCrudInfo(ctrlOptions)
      withCtrl == ~isNil(ctrlOptions)
      quiet == [or |-> FALSE, filter |-> FALSE, persist |-> FALSE]
      noHook == [ran |-> FALSE, arg |-> Undef]
      noAuth == [or |-> Undef, filter |-> Undef, auth |-> Undef]
  IN Then(parseQuery(NewParser, request.query, {}), LAMBDA q :
     IF q.err # NoErr
     THEN [err |-> q.err, attach |-> Undef, list |-> <<>>, auth |-> noAuth,
           fn |-> noHook, ran |-> quiet]
     ELSE
     Then(getSearch(q.parser, info.crudOptions, info.action,
                    IF withCtrl THEN request.params ELSE Undef), LAMBDA s :
     IF s.err # NoErr
     THEN [err |-> s.err, attach |-> Undef, list |-> <<>>, auth |-> noAuth,
           fn |-> s.fn, ran |-> quiet]
     ELSE IF ~withCtrl
     THEN [err |-> NoErr,
           attach |-> getCrudRequest([s.parser EXCEPT !.search = Obj1("$and", Arr(s.val))],
                                     info.crudOptions, Undef),
           list |-> s.val, auth |-> noAuth, fn |-> s.fn, ran |-> quiet]
     ELSE
     Then(getAuth(s.parser, info.crudOptions, request), LAMBDA a :
     IF a.err # NoErr
     THEN [err |-> a.err, attach |-> Undef, list |-> s.val, auth |-> noAuth,
           fn |-> s.fn, ran |-> a.ran]
     ELSE [err |-> NoErr,
           attach |-> getCrudRequest(
                        [a.parser EXCEPT !.search =
                           IF Truthy(a.auth.or)
                           THEN Obj1("$or", Arr(<<a.auth.or, Obj1("$and", Arr(s.val))>>))
                           ELSE Obj1("$and", Arr(<<a.auth.filter>> \o s.val))],
                        info.crudOptions, a.auth.auth),
           list |-> s.val, auth |-> a.auth, fn |-> s.fn, ran |-> a.ran])))

B2N(b) == IF b THEN 1 ELSE 0

\* an interceptor that never finds the request parsed
hasParsedRequestNever(v) == FALSE

\* line 34: req[PARSED_CRUD_REQUEST_KEY] is set
hasParsedRequest(v) == Truthy(v)

\* a catch block that rethrows whatever it caught
catchErrorRethrow(error) == error

\* lines 56-60: the catch block of intercept
catchError(error) ==
  IF error.ex = "RequestQueryException" THEN BadRequestException(error.msg) ELSE error

\* intercept(context, next)
intercept ==
  /\ calls.intercept < MaxIntercepts
  /\ IF hasParsedRequest(attached)
     THEN /\ result' = [out |-> "handle", error |-> NoErr]
          /\ calls' = [calls EXCEPT !.intercept = @ + 1, !.next = @ + 1]
          /\ UNCHANGED <<req, route, attached, trace>>
          /\ UNCHANGED <<svars, cvars, pvars>>
     ELSE \E run \in {assemble(req, route)} :
          /\ attached' = run.attach
          /\ result' =
               IF run.err = NoErr THEN [out |-> "handle", error |-> NoErr]
               ELSE [out |-> "throw", error |-> catchError(run.err)]
          /\ calls' = [intercept |-> calls.intercept + 1,
                       parse |-> calls.parse + 1,
                       filterFn |-> calls.filterFn + B2N(run.fn.ran),
                       authOr |-> calls.authOr + B2N(run.ran.or),
                       authFilter |-> calls.authFilter + B2N(run.ran.filter),
                       next |-> calls.next + B2N(run.err = NoErr)]
          /\ trace' = [list |-> run.list, auth |-> run.auth, fnArg |-> run.fn.arg,
                       err |-> run.err]
          /\ UNCHANGED <<req, route>>
          /\ UNCHANGED <<svars, cvars, pvars>>

(***************************************************************************)
(* The requests and routes of the model.                                   *)
(***************************************************************************)
\* `field||operator||value`, as its parts
FilterPool ==
  << <<"status", "$eq", "1">>, <<"id", "$gt", "1">>, <<"name", "$notnull">>,
     <<"id", "$in", "1,2">> >>
OrPool ==
  << <<"status", "$eq", "2">>, <<"name", "isnull">>, <<"id", "eq", "5">>,
     <<"status", "$ne", "5">> >>
BadFilter == <<"status", "$eq">>

Min(a, b) == IF a < b THEN a ELSE b
Prefixes(pool) == {SubSeq(pool, 1, n) : n \in 0..Min(MaxFilters, Len(pool))}

Queries ==
  [search : {Undef, Str(TxtStatusEq1), Str(TxtEmptyObj), Str(TxtBadJson), Str(TxtFive)},
   filter : Prefixes(FilterPool) \cup {<<BadFilter>>},
   or : Prefixes(OrPool)]

RouteParams ==
  {Obj(<<>>),
   Obj(<<P("id", Str("1"))>>),
   Obj(<<P("ver", Str("3")), P("id", Str("2"))>>),
   Obj(<<P("id", Str("abc"))>>),
   Obj(<<P("zz", Str("1"))>>)}

Requests == [query : Queries, params : RouteParams, user : {Undef, UserObj}]

\* CrudOptions.params of the routes
ParamsOptions ==
  [id |-> [field |-> "id", type |-> "number", disabled |-> FALSE],
   ver |-> [field |-> "ver", type |-> "string", disabled |-> TRUE]]

FilterOptions ==
  {Undef, StaticCond,
   [t |-> "filters", items |-> <<[field |-> "name", operator |-> "notnull", value |-> Undef],
                                 [field |-> "status", operator |-> "$lt", value |-> Num(9)]>>],
   Fn("pin"), Fn("merge"), Fn("void"), Fn("throw")}

AuthOptions ==
  {[t |-> "auth", or |-> "none", filter |-> "none", persist |-> "none"],
   [t |-> "auth", or |-> "cond", filter |-> "cond", persist |-> "cond"],
   [t |-> "auth", or |-> "void", filter |-> "cond", persist |-> "none"],
   [t |-> "auth", or |-> "none", filter |-> "void", persist |-> "none"],
   [t |-> "auth", or |-> "none", filter |-> "throw", persist |-> "none"]}

Routes ==
  {Undef} \cup
  {[t |-> "options", query |-> [filter |-> f], params |-> ParamsOptions, auth |-> a,
    action |-> "Read-All"] : f \in FilterOptions, a \in AuthOptions}

NoCalls ==
  [intercept |-> 0, parse |-> 0, filterFn |-> 0, authOr |-> 0, authFilter |-> 0, next |-> 0]
NoTrace ==
  [list |-> <<>>, auth |-> [or |-> Undef, filter |-> Undef, auth |-> Undef],
   fnArg |-> Undef, err |-> NoErr]

\* a request object before any interceptor has seen it
FreshRequest ==
  /\ attached = Undef
  /\ result = [out |-> "none", error |-> NoErr]
  /\ calls = NoCalls
  /\ trace = NoTrace

(***************************************************************************)
(* TypeOrmCrudService: strings the service looks into.                     *)
(***************************************************************************)
\* the string a sequence of characters spells
RECURSIVE Text(_)
Text(cs) == IF cs = <<>> THEN "" ELSE cs[1] \o Text(Tail(cs))

\* the characters of a string
Chars(name) == [i \in 1..Len(name) |-> SubSeq(name, i, i)]

\* String.prototype.split('.')
RECURSIVE SplitDot(_)
SplitDot(cs) ==
  IF \A i \in 1..Len(cs) : cs[i] # "."
  THEN <<cs>>
  ELSE LET d == CHOOSE i \in 1..Len(cs) : cs[i] = "." /\ \A j \in 1..(i - 1) : cs[j] # "."
       IN <<SubSeq(cs, 1, d - 1)>> \o SplitDot(SubSeq(cs, d + 1, Len(cs)))

\* the `i` flag: letters compare by their lower case
Lower(c) ==
  CASE c = "T" -> "t" [] c = "O" -> "o" [] c = "R" -> "r" [] c = "D" -> "d"
    [] c = "B" -> "b" [] c = "F" -> "f" [] c = "U" -> "u" [] c = "N" -> "n"
    [] c = "I" -> "i" [] c = "W" -> "w" [] OTHER -> c

HasAt(s, p, word) ==
  /\ p + Len(word) - 1 <= Len(s)
  /\ \A k \in 1..Len(word) : Lower(s[p + k - 1]) = Lower(word[k])

(***************************************************************************)
(* Regular expressions: a sequence of items, each a group of alternatives  *)
(* or a starred character class, matched as a backtracking matcher does:   *)
(* alternatives in order, stars greedy.                                    *)
(***************************************************************************)
Alt(words) == [kind |-> "alt", words |-> words, class |-> ""]
Star(class) == [kind |-> "star", words |-> <<>>, class |-> class]
InClass(c, class) == IF class = "w" THEN Lower(c) = "w" ELSE c # "\n"

Quote == << <<"%", "2", "7">>, <<"'">> >>
\* sqlInjectionRegEx, in order
sqlInjectionRegEx ==
  << \* /(%27)|(\')|(--)|(%23)|(#)/gi
     <<Alt(Quote \o << <<"-", "-">>, <<"%", "2", "3">>, <<"#">> >>)>>,
     \* /((%3D)|(=))[^\n]*((%27)|(\')|(--)|(%3B)|(;))/gi
     <<Alt(<< <<"%", "3", "D">>, <<"=">> >>), Star("notnl"),
       Alt(Quote \o << <<"-", "-">>, <<"%", "3", "B">>, <<";">> >>)>>,
     \* /w*((%27)|(\'))((%6F)|o|(%4F))((%72)|r|(%52))/gi
     <<Star("w"), Alt(Quote),
       Alt(<< <<"%", "6", "F">>, <<"o">>, <<"%", "4", "F">> >>),
       Alt(<< <<"%", "7", "2">>, <<"r">>, <<"%", "5", "2">> >>)>>,
     \* /((%27)|(\'))union/gi
     <<Alt(Quote), Alt(<< <<"u", "n", "i", "o", "n">> >>)>> >>

\* the length of the longest run of characters of the class from p
RECURSIVE Run(_, _, _)
Run(s, p, class) ==
  IF p <= Len(s) /\ InClass(s[p], class) THEN 1 + Run(s, p + 1, class) ELSE 0

\* the position after the match of items k.. that starts at p, or -1
RECURSIVE MatchAt(_, _, _, _)
MatchAt(items, k, s, p) ==
  IF k > Len(items) THEN p
  ELSE IF items[k].kind = "alt"
  THEN LET ok == {i \in 1..Len(items[k].words) :
                    /\ HasAt(s, p, items[k].words[i])
                    /\ MatchAt(items, k + 1, s, p + Len(items[k].words[i])) # -1}
       IN IF ok = {} THEN -1
          ELSE LET i == CHOOSE i \in ok : \A j \in ok : i <= j
               IN MatchAt(items, k + 1, s, p + Len(items[k].words[i]))
  ELSE LET ok == {n \in 0..Run(s, p, items[k].class) :
                    MatchAt(items, k + 1, s, p + n) # -1}
       IN IF ok = {} THEN -1
          ELSE LET n == CHOOSE n \in ok : \A m \in ok : n >= m
               IN MatchAt(items, k + 1, s, p + n)

\* RegExp.prototype.test of a global regular expression whose lastIndex is li:
\* the search starts at lastIndex, a match leaves lastIndex after it, a
\* failure resets it
test(items, li, s) ==
  IF li > Len(s) THEN [matched |-> FALSE, lastIndex |-> 0]
  ELSE LET starts == {p \in (li + 1)..(Len(s) + 1) : MatchAt(items, 1, s, p) # -1}
       IN IF starts = {} THEN [matched |-> FALSE, lastIndex |-> 0]
          ELSE LET p == CHOOSE p \in starts : \A q \in starts : p <= q
               IN [matched |-> TRUE, lastIndex |-> MatchAt(items, 1, s, p) - 1]

throwBadRequestException(msg) == BadRequestException(msg)

\* checkSqlInjection(field), with the lastIndex of the four patterns
RECURSIVE checkSqlInjectionFrom(_, _, _)
checkSqlInjectionFrom(li, field, i) ==
  IF i > Len(sqlInjectionRegEx) THEN [err |-> NoErr, lastIndex |-> li]
  ELSE Then(test(sqlInjectionRegEx[i], li[i], field), LAMBDA t :
         IF t.matched
         THEN [err |-> throwBadRequestException(
                         "SQL injection detected: \"" \o Text(field) \o "\""),
               lastIndex |-> [li EXCEPT ![i] = t.lastIndex]]
         ELSE checkSqlInjectionFrom([li EXCEPT ![i] = t.lastIndex], field, i + 1))

checkSqlInjection(li, field) == checkSqlInjectionFrom(li, field, 1)

(***************************************************************************)
(* The entity of the service and the relations of its metadata.            *)
(***************************************************************************)
alias == <<"T">>
dbName == "postgres"
\* entityColumnsHash: property name to database path
entityColumnsHash == [id |-> "id", n |-> "n", status |-> "status"]
entityColumns == <<"id", "n", "status">>
entityPrimaryColumns == <<"id">>

\* getFieldWithAlias(field, sort): the field as it goes into the SQL text
getFieldWithAlias(field, sort) ==
  LET i == "\""   \* the quote of every dbName but mysql and mariadb
      cs == Chars(field)
      cols == SplitDot(cs)
  IN CASE Len(cols) = 1 ->
            IF sort THEN alias \o <<".">> \o cs
            ELSE <<i>> \o alias \o <<i, ".", i>>
                   \o (IF field \in DOMAIN entityColumnsHash
                       THEN (IF entityColumnsHash[field] # field
                             THEN Chars(entityColumnsHash[field]) ELSE cs)
                       ELSE <<"u", "n", "d", "e", "f", "i", "n", "e", "d">>)
                   \o <<i>>
       [] Len(cols) = 2 -> cs
       [] OTHER -> cols[Len(cols) - 1] \o <<".">> \o cols[Len(cols)]

\* mapSort(sort): the order-by map, with the lastIndex the patterns are left with
RECURSIVE mapSortFrom(_, _, _, _)
mapSortFrom(li, sort, i, params) ==
  IF i > Len(sort) THEN [err |-> NoErr, lastIndex |-> li, val |-> params]
  ELSE Then(getFieldWithAlias(sort[i].field, TRUE), LAMBDA field :
       Then(checkSqlInjection(li, field), LAMBDA checked :
         IF checked.err # NoErr
         THEN [err |-> checked.err, lastIndex |-> checked.lastIndex, val |-> <<>>]
         ELSE mapSortFrom(checked.lastIndex, sort, i + 1,
                          Append(params, P(Text(field), Str(sort[i].order))))))

mapSort(li, sort) == mapSortFrom(li, sort, 1, <<>>)

(***************************************************************************)
(* The condition compiler.  A where-entry is what the query builder holds  *)
(* for one andWhere/orWhere call: a fragment with its parameters, or a     *)
(* bracket group (negated for $not) with the entries of its own builder.   *)
(***************************************************************************)
Leaf(type, str, params) ==
  [type |-> type, kind |-> "leaf", str |-> str, params |-> params, condition |-> <<>>]
Group(type, kind, entries) ==
  [type |-> type, kind |-> kind, str |-> "", params |-> <<>>, condition |-> entries]

\* `${value}` in a template string
Interpolate(v) ==
  CASE v.t = "str" -> v.s
    [] v.t = "num" -> ToString(v.n)
    [] v.t = "bool" -> IF v.b THEN "true" ELSE "false"
    [] v.t = "null" -> "null"
    [] v.t = "undef" -> "undefined"
    [] OTHER -> "[object]"

\* value.length: of an array, of a string; -1 stands for undefined
LengthOf(value) ==
  CASE value.t = "arr" -> Len(value.items)
    [] value.t = "str" -> Len(value.s)
    [] OTHER -> -1

\* checkFilterIsArray(cond, withLength)
checkFilterIsArray(cond, withLength) ==
  IF cond.value.t # "arr" \/ Len(cond.value.items) = 0 \/ withLength
  THEN throwBadRequestException("Invalid column '" \o cond.field \o "' value")
  ELSE NoErr

\* getColumnType(field): the type of an own column; reading the type of a
\* column the entity does not have throws a TypeError
getColumnType(field) == IF field \in DOMAIN entityColumnsHash THEN "text" ELSE ""

ArrayOperators == {"$in", "$notin", "$inL", "$notinL", "$contArr", "$intersectsArr"}

\* the fragment of the operator table for a built-in operator
OperatorStr(operator, field, param, columnType) ==
  LET likeOperator == IF dbName = "postgres" THEN "ILIKE" ELSE "LIKE"
      low == "LOWER(" \o field \o ")"
  IN CASE operator = "$eq" -> field \o " = :" \o param
       [] operator = "$ne" -> field \o " != :" \o param
       [] operator = "$gt" -> field \o " > :" \o param
       [] operator = "$lt" -> field \o " < :" \o param
       [] operator = "$gte" -> field \o " >= :" \o param
       [] operator = "$lte" -> field \o " <= :" \o param
       [] operator \in {"$starts", "$ends", "$cont"} -> field \o " LIKE :" \o param
       [] operator = "$excl" -> field \o " NOT LIKE :" \o param
       [] operator = "$in" -> field \o " IN (:..." \o param \o ")"
       [] operator = "$notin" -> field \o " NOT IN (:..." \o param \o ")"
       [] operator = "$isnull" -> field \o " IS NULL"
       [] operator = "$notnull" -> field \o " IS NOT NULL"
       [] operator = "$between" ->
            field \o " BETWEEN :" \o param \o "0 AND :" \o param \o "1"
       [] operator = "$eqL" -> low \o " = :" \o param
       [] operator = "$neL" -> low \o " != :" \o param
       [] operator \in {"$startsL", "$endsL", "$contL"} ->
            low \o " " \o likeOperator \o " :" \o param
       [] operator = "$exclL" -> low \o " NOT " \o likeOperator \o " :" \o param
       [] operator = "$inL" -> low \o " IN (:..." \o param \o ")"
       [] operator = "$notinL" -> low \o " NOT IN (:..." \o param \o ")"
       [] operator = "$contArr" ->
            field \o " @> ARRAY[:..." \o param \o "]::" \o columnType \o "[]"
       [] operator = "$intersectsArr" ->
            field \o " && ARRAY[:..." \o param \o "]::" \o columnType \o "[]"
       [] OTHER -> field \o " = :" \o param

\* the parameter map of the operator table for a built-in operator
OperatorParams(operator, param, value) ==
  CASE operator \in {"$starts", "$startsL"} -> <<P(param, Str(Interpolate(value) \o "%"))>>
    [] operator \in {"$ends", "$endsL"} -> <<P(param, Str("%" \o Interpolate(value)))>>
    [] operator \in {"$cont", "$excl", "$contL", "$exclL"} ->
         <<P(param, Str("%" \o Interpolate(value) \o "%"))>>
    [] operator \in {"$isnull", "$notnull"} -> <<>>
    [] operator = "$between" ->
         <<P(param \o "0", value.items[1]), P(param \o "1", value.items[2])>>
    [] OTHER -> <<P(param, value)>>

\* customOperators: a set of [name, isArray, query, params]; query is the
\* name of the SQL function the operator's query(field, param) applies
mapOperatorsToQuery(cond, param, customOperators) ==
  LET field == Text(getFieldWithAlias(cond.field, FALSE))
      operator == IF cond.operator = "" \/ SubSeq(cond.operator, 1, 1) # "$"
                  THEN "$" \o cond.operator ELSE cond.operator
      cnd == [cond EXCEPT !.operator = operator]
      custom == {c \in customOperators : c.name = operator}
      none == [err |-> NoErr, str |-> "", params |-> <<>>]
  IN CASE operator \in ArrayOperators ->
            Then(checkFilterIsArray(cnd, FALSE), LAMBDA e :
              IF e # NoErr THEN [none EXCEPT !.err = e]
              ELSE IF operator \in {"$contArr", "$intersectsArr"}
                      /\ getColumnType(cond.field) = ""
              THEN [none EXCEPT !.err = Error("TypeError")]
              ELSE [err |-> NoErr,
                    str |-> OperatorStr(operator, field, param, getColumnType(cond.field)),
                    params |-> OperatorParams(operator, param, cond.value)])
       [] operator = "$between" ->
            \* cond.value.length !== 2 is evaluated first: null and undefined
            \* have no properties
            IF isNil(cond.value) THEN [none EXCEPT !.err = Error("TypeError")]
            ELSE
            Then(checkFilterIsArray(cnd, LengthOf(cond.value) # 2),
                 LAMBDA e :
              IF e # NoErr THEN [none EXCEPT !.err = e]
              ELSE [err |-> NoErr,
                    str |-> OperatorStr(operator, field, param, ""),
                    params |-> OperatorParams(operator, param, cond.value)])
       [] operator \in CondOperators \ (ArrayOperators \cup {"$between"}) ->
            [err |-> NoErr,
             str |-> OperatorStr(operator, field, param, ""),
             params |-> OperatorParams(operator, param, cond.value)]
       [] OTHER ->
            \* default: without a custom operator of that name, an equality
            IF custom = {}
            THEN [err |-> NoErr,
                  str |-> field \o " = :" \o param,
                  params |-> <<P(param, cond.value)>>]
            ELSE LET c == CHOOSE c \in custom : TRUE IN
                 IF c.isArray /\ checkFilterIsArray(cnd, FALSE) # NoErr
                 THEN [none EXCEPT !.err = throwBadRequestException(
                                        "Invalid custom operator '" \o field \o "' query")]
                 ELSE [err |-> NoErr,
                       str |-> c.query \o "(" \o field \o ", :" \o param \o ")",
                       params |-> IF Truthy(c.params) THEN c.params.kv
                                  ELSE <<P(param, cond.value)>>]

\* The builders of one compilation: ws[l] holds the where-entries of the
\* builder at nesting level l (1 is the query builder, l + 1 the builder a
\* Brackets factory of level l receives); time is the last hrtime reading and
\* tick what the clock advances by between two readings (0 when two readings
\* are taken within the resolution of the clock).
NewBuilders == [ws |-> << <<>> >>, time |-> <<0, 0>>, tick |-> 1]

\* the clocks a compilation can run under
Clocks == {[NewBuilders EXCEPT !.tick = t] : t \in {0, 1}}

andWhere(st, l, entry) == [st EXCEPT !.ws[l] = Append(@, entry)]

\* setAndWhere / setOrWhere(cond, i, builder, customOperators)
setWhere(type, cond, i, st, l, customOperators) ==
  Then(mapOperatorsToQuery(cond, type \o "Where" \o i, customOperators), LAMBDA q :
    IF q.err # NoErr THEN [err |-> q.err, st |-> st]
    ELSE [err |-> NoErr, st |-> andWhere(st, l, Leaf(type, q.str, q.params))])
setAndWhere(cond, i, st, l, customOperators) == setWhere("and", cond, i, st, l, customOperators)
setOrWhere(cond, i, st, l, customOperators) == setWhere("or", cond, i, st, l, customOperators)

RECURSIVE Underscores(_)
Underscores(n) == IF n = 0 THEN "" ELSE "_" \o Underscores(n - 1)

\* process.hrtime(): the next reading of the clock
hrtime(st) == <<st.time[1], st.time[2] + st.tick>>

\* a builderSetWhere that keeps the operator it is given for a null value
builderSetWhereKeepOperator(st, l, condition, field, value, customOperators, operator) ==
  LET time == hrtime(st)
      index == Underscores(Len(Chars(field))) \o ToString(time[1]) \o ToString(time[2])
      cond == [field |-> field, operator |-> operator, value |-> value]
      now == [st EXCEPT !.time = time]
  IN IF condition = "$and" THEN setAndWhere(cond, index, now, l, customOperators)
     ELSE setOrWhere(cond, index, now, l, customOperators)

\* builderSetWhere(builder, condition, field, value, customOperators, operator)
builderSetWhere(st, l, condition, field, value, customOperators, operator) ==
  LET time == hrtime(st)
      \* field.replace(/./g, '_'): every character of the field
      safeFieldName == Underscores(Len(Chars(field)))
      index == safeFieldName \o ToString(time[1]) \o ToString(time[2])
      cond == [field |-> field,
               operator |-> IF value.t = "null" THEN "$isnull" ELSE operator,
               value |-> value]
      now == [st EXCEPT !.time = time]
  IN IF condition = "$and" THEN setAndWhere(cond, index, now, l, customOperators)
     ELSE setOrWhere(cond, index, now, l, customOperators)

objKeys(o) == [i \in 1..Len(o.kv) |-> o.kv[i].k]
\* o[k]
Get(o, k) ==
  IF \E i \in 1..Len(o.kv) : o.kv[i].k = k
  THEN o.kv[CHOOSE i \in 1..Len(o.kv) : o.kv[i].k = k].v
  ELSE Undef

\* new Brackets((qb) => ...): the builder at level l + 1 the factory receives
Brackets(st, l) == [st EXCEPT !.ws = SubSeq(@, 1, l) \o << <<>> >>]

\* builderAddBrackets(builder, condition, brackets, negated): brackets is what
\* the factory left of the builder Brackets(st, l); its entries are pushed as
\* one group on the builder at level l
builderAddBrackets(st, l, condition, brackets, negated) ==
  Then(brackets, LAMBDA r :
    IF r.err # NoErr THEN [err |-> r.err, st |-> st]
    ELSE [err |-> NoErr,
          st |-> [r.st EXCEPT !.ws =
                    SubSeq(@, 1, l - 1)
                      \o <<Append(@[l],
                                  Group(IF condition = "$and" THEN "and"
                                        ELSE IF condition = "$or" \/ ~negated THEN "or"
                                        ELSE "simple",
                                        IF negated THEN "not" ELSE "brackets",
                                        @[l + 1]))>>]])

RECURSIVE setSearchFieldObjectCondition(_, _, _, _, _, _)
RECURSIVE forEachOperator(_, _, _, _, _, _, _, _)
RECURSIVE setSearchCondition(_, _, _, _, _)
RECURSIVE forEachItem(_, _, _, _, _, _)
RECURSIVE forEachField(_, _, _, _, _, _, _)

\* lines 964-1003: operators.forEach(...) inside the bracket group of a field
forEachOperator(st, qb, condition, field, object, operators, i, customOperators) ==
  IF i > Len(operators) THEN [err |-> NoErr, st |-> st]
  ELSE Then(
    IF operators[i] # "$or"
    THEN builderSetWhere(st, qb, condition, field, Get(object, operators[i]),
                         customOperators, operators[i])
    ELSE IF Len(objKeys(Get(object, "$or"))) = 1
    THEN setSearchFieldObjectCondition(st, qb, condition, field, Get(object, "$or"),
                                       customOperators)
    ELSE builderAddBrackets(st, qb, condition,
           setSearchFieldObjectCondition(Brackets(st, qb), qb + 1, "$or", field, Get(object, "$or"),
                                         customOperators),
           FALSE),
    LAMBDA r :
      IF r.err # NoErr THEN r
      ELSE forEachOperator(r.st, qb, condition, field, object, operators, i + 1,
                           customOperators))

setSearchFieldObjectCondition(st, l, condition, field, object, customOperators) ==
  IF ~isObject(object) THEN [err |-> NoErr, st |-> st]
  ELSE LET operators == objKeys(object) IN
    IF Len(operators) = 1 /\ operators[1] # "$or"
    THEN builderSetWhere(st, l, condition, field, Get(object, operators[1]),
                         customOperators, operators[1])
    ELSE builderAddBrackets(st, l, condition,
           forEachOperator(Brackets(st, l), l + 1, condition, field, object, operators, 1,
                           customOperators),
           FALSE)

\* lines 790-797 and 834-845: one field of a search node
setSearchField(st, l, condition, field, value, customOperators) ==
  IF ~isObject(value)
  THEN builderSetWhere(st, l, condition, field, value, customOperators, "$eq")
  ELSE setSearchFieldObjectCondition(st, l, condition, field, value, customOperators)

\* items.forEach((item) => this.setSearchCondition(qb, item, customOperators, condition))
forEachItem(st, qb, items, i, customOperators, condition) ==
  IF i > Len(items) THEN [err |-> NoErr, st |-> st]
  ELSE Then(setSearchCondition(st, qb, items[i], customOperators, condition), LAMBDA r :
         IF r.err # NoErr THEN r
         ELSE forEachItem(r.st, qb, items, i + 1, customOperators, condition))

\* keys.forEach(...) inside the bracket group of a node with several keys;
\* builder is the level of the builder the node is compiled on
forEachField(st, builder, qb, search, keys, i, customOperators) ==
  IF i > Len(keys) THEN [err |-> NoErr, st |-> st]
  ELSE Then(
    IF keys[i] # "$or" \/ ~isArrayFull(Get(search, "$or"))
    THEN setSearchField(st, qb, "$and", keys[i], Get(search, keys[i]), customOperators)
    ELSE IF Len(Get(search, "$or").items) = 1
    \* line 804: the builder of the node, not qb; qb keeps what it holds
    THEN Then(setSearchCondition([st EXCEPT !.ws = SubSeq(@, 1, builder)], builder,
                                 Get(search, "$or").items[1], customOperators, "$and"),
              LAMBDA one :
                IF one.err # NoErr THEN one
                ELSE [err |-> NoErr,
                      st |-> [one.st EXCEPT !.ws = SubSeq(@, 1, builder) \o <<st.ws[qb]>>]])
    ELSE builderAddBrackets(st, qb, "$and",
           forEachItem(Brackets(st, qb), qb + 1, Get(search, "$or").items, 1, customOperators, "$or"),
           FALSE),
    LAMBDA r :
      IF r.err # NoErr THEN r
      ELSE forEachField(r.st, builder, qb, search, keys, i + 1, customOperators))

\* a setSearchCondition that puts every $and and $or array in a bracket
\* group, the arrays of one element too
setSearchConditionAlwaysBrackets(st, l, search, customOperators, condition) ==
  IF ~isObject(search) \/ Len(objKeys(search)) = 0 THEN [err |-> NoErr, st |-> st]
  ELSE LET keys == objKeys(search)
           not == Get(search, "$not")
           and == Get(search, "$and")
           or == Get(search, "$or")
       IN
    IF isArrayFull(not)
    THEN builderAddBrackets(st, l, condition,
           forEachItem(Brackets(st, l), l + 1, not.items, 1, customOperators, "$and"),
           TRUE)
    ELSE IF isArrayFull(and)
    THEN builderAddBrackets(st, l, condition,
           forEachItem(Brackets(st, l), l + 1, and.items, 1, customOperators, "$and"),
           FALSE)
    ELSE IF isArrayFull(or)
    THEN IF Len(keys) = 1
         THEN builderAddBrackets(st, l, condition,
                forEachItem(Brackets(st, l), l + 1, or.items, 1, customOperators, "$or"),
                FALSE)
         ELSE builderAddBrackets(st, l, condition,
                forEachField(Brackets(st, l), l, l + 1, search, keys, 1, customOperators),
                FALSE)
    ELSE IF Len(keys) = 1
    THEN setSearchField(st, l, condition, keys[1], Get(search, keys[1]), customOperators)
    ELSE builderAddBrackets(st, l, condition,
           forEachField(Brackets(st, l), l, l + 1, search, keys, 1, customOperators),
           FALSE)

setSearchCondition(st, l, search, customOperators, condition) ==
  IF ~isObject(search) \/ Len(objKeys(search)) = 0 THEN [err |-> NoErr, st |-> st]
  ELSE LET keys == objKeys(search)
           not == Get(search, "$not")
           and == Get(search, "$and")
           or == Get(search, "$or")
       IN
    \* search: {$not: [...]}
    IF isArrayFull(not)
    THEN builderAddBrackets(st, l, condition,
           forEachItem(Brackets(st, l), l + 1, not.items, 1, customOperators, "$and"),
           TRUE)
    \* search: {$and: [...], ...}
    ELSE IF isArrayFull(and)
    THEN IF Len(and.items) = 1
         THEN setSearchCondition(st, l, and.items[1], customOperators, condition)
         ELSE builderAddBrackets(st, l, condition,
                forEachItem(Brackets(st, l), l + 1, and.items, 1, customOperators, "$and"),
                FALSE)
    \* search: {$or: [...], ...}
    ELSE IF isArrayFull(or)
    THEN IF Len(keys) = 1
         THEN IF Len(or.items) = 1
              THEN setSearchCondition(st, l, or.items[1], customOperators, condition)
              ELSE builderAddBrackets(st, l, condition,
                     forEachItem(Brackets(st, l), l + 1, or.items, 1, customOperators, "$or"),
                     FALSE)
         \* search: {$or: [...], foo, ...}
         ELSE builderAddBrackets(st, l, condition,
                forEachField(Brackets(st, l), l, l + 1, search, keys, 1, customOperators),
                FALSE)
    \* search: {foo}
    ELSE IF Len(keys) = 1
    THEN setSearchField(st, l, condition, keys[1], Get(search, keys[1]), customOperators)
    \* search: {foo, ...}
    ELSE builderAddBrackets(st, l, condition,
           forEachField(Brackets(st, l), l, l + 1, search, keys, 1, customOperators),
           FALSE)

(***************************************************************************)
(* Relations and joins.                                                    *)
(***************************************************************************)
\* repo.metadata of the entity T and of the entities its relations lead to
EntityRelations ==
  [T |-> <<[propertyName |-> "c", inverse |-> "Company"]>>,
   Company |-> <<[propertyName |-> "p", inverse |-> "Person"]>>,
   Person |-> <<>>]
EntityColumnsOf ==
  [T |-> [columns |-> entityColumns, primaryColumns |-> entityPrimaryColumns],
   Company |-> [columns |-> <<"id", "n">>, primaryColumns |-> <<"id">>],
   Person |-> [columns |-> <<"id">>, primaryColumns |-> <<"id">>]]

InSeq(x, seq) == \E i \in 1..Len(seq) : seq[i] = x
\* [...new Set(seq)]
Unique(seq) ==
  LET F[i \in 0..Len(seq)] ==
        IF i = 0 THEN <<>>
        ELSE IF InSeq(seq[i], F[i - 1]) THEN F[i - 1] ELSE Append(F[i - 1], seq[i])
  IN F[Len(seq)]

\* a getAllowedColumns that allows every column
getAllowedColumnsAll(columns, options) == columns

\* getAllowedColumns(columns, options)
getAllowedColumns(columns, options) ==
  IF Len(options.exclude) = 0 /\ Len(options.allow) = 0 THEN columns
  ELSE SelectSeq(columns, LAMBDA column :
         /\ (Len(options.exclude) > 0 => ~InSeq(column, options.exclude))
         /\ (Len(options.allow) > 0 => InSeq(column, options.allow)))

\* Map.get / Map.has / Map.set on entityRelationsHash, a sequence of entries
HashHas(hash, key) == \E i \in 1..Len(hash) : hash[i].k = key
HashGet(hash, key) == hash[CHOOSE i \in 1..Len(hash) : hash[i].k = key].v
HashSet(hash, key, value) ==
  IF HashHas(hash, key)
  THEN [i \in 1..Len(hash) |-> IF hash[i].k = key THEN P(key, value) ELSE hash[i]]
  ELSE Append(hash, P(key, value))

NoRelation == [t |-> "undef"]
Find(relations, propertyName) ==
  IF \E i \in 1..Len(relations) : relations[i].propertyName = propertyName
  THEN relations[CHOOSE i \in 1..Len(relations) :
                   relations[i].propertyName = propertyName].inverse
  ELSE ""

\* lines 539-560: fields.reduce(...), from the relations of the entity
RECURSIVE reduceFields(_, _, _)
reduceFields(fields, i, res) ==
  IF i > Len(fields) THEN res
  ELSE LET found == Find(res.relations, Text(fields[i]))
       IN reduceFields(fields, i + 1,
            [relations |-> IF found = "" THEN <<>> ELSE EntityRelations[found],
             relationMetadata |-> found,
             name |-> Text(fields[i]),
             parentPath |-> IF i # Len(fields)
                            THEN (IF res.parentPath = "" THEN Text(fields[i])
                                  ELSE res.parentPath \o "." \o Text(fields[i]))
                            ELSE res.parentPath])

\* getRelationMetadata(field, options): the relation, and the cache it leaves
getRelationMetadata(hash, field, options) ==
  LET fields == SplitDot(Chars(field))
      reduced == reduceFields(fields, 1,
                   [relations |-> EntityRelations["T"], relationMetadata |-> "",
                    name |-> "", parentPath |-> ""])
      meta == IF Len(fields) = 1 THEN Find(EntityRelations["T"], field)
              ELSE reduced.relationMetadata
      name == IF Len(fields) = 1 THEN field ELSE reduced.name
      path ==
        IF Len(fields) = 1 THEN Str(Text(alias) \o "." \o field)
        ELSE IF reduced.parentPath # "" /\ HashHas(hash, reduced.parentPath)
        THEN (IF Truthy(HashGet(hash, reduced.parentPath).alias)
              THEN Str(HashGet(hash, reduced.parentPath).alias.s \o "." \o name)
              ELSE Str(field))
        ELSE Undef
      allowedRelation ==
        IF HashHas(hash, field) THEN HashGet(hash, field)
        ELSE IF meta # ""
        THEN [t |-> "relation", alias |-> options.alias, name |-> name, path |-> path,
              columns |-> EntityColumnsOf[meta].columns, nested |-> Len(fields) > 1,
              primaryColumns |-> EntityColumnsOf[meta].primaryColumns,
              allowedColumns |-> <<>>]
        ELSE NoRelation
  IN IF allowedRelation = NoRelation THEN [val |-> NoRelation, hash |-> hash]
     ELSE LET toSave == [allowedRelation EXCEPT
                           !.allowedColumns = getAllowedColumns(allowedRelation.columns, options)]
              set1 == HashSet(hash, field, toSave)
          IN [val |-> toSave,
              hash |-> IF Truthy(options.alias) THEN HashSet(set1, options.alias.s, toSave)
                       ELSE set1]

\* convertArrayToQuery(data)
RECURSIVE JoinAnd(_)
JoinAnd(strs) ==
  IF Len(strs) = 0 THEN ""
  ELSE IF Len(strs) = 1 THEN strs[1]
  ELSE strs[1] \o " AND " \o JoinAnd(Tail(strs))
RECURSIVE Assign(_, _)
Assign(params, more) ==
  IF more = <<>> THEN params
  ELSE Assign(IF \E i \in 1..Len(params) : params[i].k = more[1].k
              THEN [i \in 1..Len(params) |->
                      IF params[i].k = more[1].k THEN more[1] ELSE params[i]]
              ELSE Append(params, more[1]),
              Tail(more))
RECURSIVE AssignAll(_, _)
AssignAll(params, data) ==
  IF data = <<>> THEN params ELSE AssignAll(Assign(params, data[1].params), Tail(data))
convertArrayToQuery(data) ==
  [str |-> JoinAnd([i \in 1..Len(data) |-> data[i].str]), params |-> AssignAll(<<>>, data)]

\* lines 661-664: cond.on.map(mapOperatorsToQuery), left at the first exception
RECURSIVE mapOn(_, _, _)
mapOn(on, i, conds) ==
  IF i > Len(on) THEN [err |-> NoErr, val |-> conds]
  ELSE Then(mapOperatorsToQuery(on[i], "andCondition" \o ToString(i - 1), {}), LAMBDA q :
         IF q.err # NoErr THEN [err |-> q.err, val |-> <<>>]
         ELSE mapOn(on, i + 1, Append(conds, [str |-> q.str, params |-> q.params])))

JoinOptionOf(joinOptions, field) ==
  IF \E i \in 1..Len(joinOptions) : joinOptions[i].k = field
  THEN joinOptions[CHOOSE i \in 1..Len(joinOptions) : joinOptions[i].k = field].v
  ELSE Undef

\* a setJoin that rejects the request for a relation the route does not declare
setJoinRejectsUndeclared(cond, joinOptions, b) ==
  LET options == JoinOptionOf(joinOptions, cond.field) IN
  IF ~Truthy(options)
  THEN [err |-> throwBadRequestException("Invalid relation '" \o cond.field \o "'"),
        b |-> b]
  ELSE Then(getRelationMetadata(b.hash, cond.field, options), LAMBDA m :
    IF m.val = NoRelation THEN [err |-> NoErr, b |-> [b EXCEPT !.hash = m.hash]]
    ELSE
    LET allowedRelation == m.val
        relationType == IF options.required THEN "innerJoin" ELSE "leftJoin"
        ralias == IF Truthy(options.alias) THEN options.alias.s ELSE allowedRelation.name
        columns == IF isArrayFull(cond.select)
                   THEN SelectSeq(cond.select.items,
                                  LAMBDA column : InSeq(column, allowedRelation.allowedColumns))
                   ELSE allowedRelation.allowedColumns
        select == Unique(allowedRelation.primaryColumns \o options.persist \o columns)
        addSelect == IF options.select
                     THEN [i \in 1..Len(select) |-> ralias \o "." \o select[i]]
                     ELSE <<>>
    IN Then(IF Truthy(cond.on) THEN mapOn(cond.on.items, 1, <<>>)
            ELSE [err |-> NoErr, val |-> <<>>], LAMBDA conds :
         IF conds.err # NoErr THEN [err |-> conds.err, b |-> [b EXCEPT !.hash = m.hash]]
         ELSE [err |-> NoErr,
               b |-> [b EXCEPT
                        !.hash = m.hash,
                        !.joins = Append(@, [type |-> relationType,
                                             path |-> allowedRelation.path,
                                             alias |-> ralias,
                                             str |-> convertArrayToQuery(conds.val).str,
                                             params |-> convertArrayToQuery(conds.val).params]),
                        !.select = @ \o addSelect]]))

\* setJoin(cond, joinOptions, builder): b is the builder with the cache
setJoin(cond, joinOptions, b) ==
  LET options == JoinOptionOf(joinOptions, cond.field) IN
  IF ~Truthy(options) THEN [err |-> NoErr, b |-> b]
  ELSE Then(getRelationMetadata(b.hash, cond.field, options), LAMBDA m :
    IF m.val = NoRelation THEN [err |-> NoErr, b |-> [b EXCEPT !.hash = m.hash]]
    ELSE
    LET allowedRelation == m.val
        relationType == IF options.required THEN "innerJoin" ELSE "leftJoin"
        ralias == IF Truthy(options.alias) THEN options.alias.s ELSE allowedRelation.name
        columns == IF isArrayFull(cond.select)
                   THEN SelectSeq(cond.select.items,
                                  LAMBDA column : InSeq(column, allowedRelation.allowedColumns))
                   ELSE allowedRelation.allowedColumns
        select == Unique(allowedRelation.primaryColumns \o options.persist \o columns)
        addSelect == IF options.select
                     THEN [i \in 1..Len(select) |-> ralias \o "." \o select[i]]
                     ELSE <<>>
    IN Then(IF Truthy(cond.on) THEN mapOn(cond.on.items, 1, <<>>)
            ELSE [err |-> NoErr, val |-> <<>>], LAMBDA conds :
         IF conds.err # NoErr THEN [err |-> conds.err, b |-> [b EXCEPT !.hash = m.hash]]
         ELSE [err |-> NoErr,
               b |-> [b EXCEPT
                        !.hash = m.hash,
                        !.joins = Append(@, [type |-> relationType,
                                             path |-> allowedRelation.path,
                                             alias |-> ralias,
                                             str |-> convertArrayToQuery(conds.val).str,
                                             params |-> convertArrayToQuery(conds.val).params]),
                        !.select = @ \o addSelect]]))

(***************************************************************************)
(* createBuilder and getMany.                                              *)
(***************************************************************************)
\* getSelect(query, options)
getSelect(query, options) ==
  LET allowed == getAllowedColumns(entityColumns, options)
      columns == IF Len(query.fields) > 0
                 THEN SelectSeq(query.fields, LAMBDA field : InSeq(field, allowed))
                 ELSE allowed
      select == Unique(options.persist \o columns \o entityPrimaryColumns)
  IN Unique([i \in 1..Len(select) |-> Text(alias) \o "." \o select[i]])

\* getSort(query, options)
getSort(li, query, options) ==
  IF Len(query.sort) > 0 THEN mapSort(li, query.sort)
  ELSE IF Len(options.sort) > 0 THEN mapSort(li, options.sort)
  ELSE [err |-> NoErr, lastIndex |-> li, val |-> <<>>]

\* lines 339-347: the eager joins, in the order of the declared join options
RECURSIVE setEagerJoins(_, _, _, _)
setEagerJoins(parsed, joinOptions, i, b) ==
  IF i > Len(joinOptions) THEN [err |-> NoErr, b |-> b]
  ELSE IF ~joinOptions[i].v.eager THEN setEagerJoins(parsed, joinOptions, i + 1, b)
  ELSE LET name == joinOptions[i].k
           asked == SelectSeq(parsed.join, LAMBDA j : j.field = name)
           cond == IF Len(asked) > 0 THEN asked[1]
                   ELSE [field |-> name, select |-> Undef, on |-> Undef]
       IN Then(setJoin(cond, joinOptions, b), LAMBDA r :
            IF r.err # NoErr THEN r ELSE setEagerJoins(parsed, joinOptions, i + 1, r.b))

\* lines 350-357: the joins the request asks for that are not eager
RECURSIVE setParsedJoins(_, _, _, _)
setParsedJoins(parsed, joinOptions, i, b) ==
  IF i > Len(parsed.join) THEN [err |-> NoErr, b |-> b]
  ELSE IF Truthy(JoinOptionOf(joinOptions, parsed.join[i].field))
          /\ JoinOptionOf(joinOptions, parsed.join[i].field).eager
  THEN setParsedJoins(parsed, joinOptions, i + 1, b)
  ELSE Then(setJoin(parsed.join[i], joinOptions, b), LAMBDA r :
         IF r.err # NoErr THEN r ELSE setParsedJoins(parsed, joinOptions, i + 1, r.b))

\* isFinite(v) of JavaScript: null counts as 0
isFinite(v) == v.t \in {"num", "null"}

\* getTake(parsed, options.query): the limit of the client, else the limit of
\* the route, else none
getTake(query, options) ==
  IF Truthy(query.limit) THEN query.limit
  ELSE IF Truthy(options.limit) THEN options.limit
  ELSE Null

\* getSkip(parsed, take): the rows before the page, else the offset, else none
getSkip(query, take) ==
  IF Truthy(query.page) /\ Truthy(take) THEN Num(take.n * (query.page.n - 1))
  ELSE IF Truthy(query.offset) THEN query.offset
  ELSE Null

\* lines 366-378: builder.take(take), builder.skip(skip)
setTakeSkip(b, parsed, options) ==
  LET take == getTake(parsed, options.query)
      skip == getSkip(parsed, take)
  IN [b EXCEPT !.take = IF isFinite(take) THEN take ELSE @,
               !.skip = IF isFinite(skip) THEN skip ELSE @]

\* lines 381-385: builder.cache(options.query.cache)
setCache(b, parsed, options) ==
  IF Truthy(options.query.cache) /\ parsed.cache # Num(0)
  THEN [b EXCEPT !.cache = options.query.cache]
  ELSE b

\* createBuilder(parsed, options, many): the builder as it is returned, or as
\* it stands when an exception leaves the method; li and hash are the
\* lastIndex of the patterns and the relations cache of the service, st0 the
\* builders and the clock the compilation starts with.
createBuilderAt(st0, li, hash, parsed, options, many) ==
  LET b0 == [wheres |-> <<>>, joins |-> <<>>, orderBy |-> <<>>,
             select |-> getSelect(parsed, options.query), hash |-> hash,
             take |-> Undef, skip |-> Undef, cache |-> Undef]
      joinOptions == options.query.join
  IN Then(setSearchCondition(st0, 1, parsed.search, {}, "$and"), LAMBDA s :
     IF s.err # NoErr
     THEN [err |-> s.err, b |-> [b0 EXCEPT !.wheres = s.st.ws[1]], lastIndex |-> li]
     ELSE
     Then(setEagerJoins(parsed, joinOptions, 1, [b0 EXCEPT !.wheres = s.st.ws[1]]), LAMBDA e :
     IF e.err # NoErr THEN [err |-> e.err, b |-> e.b, lastIndex |-> li]
     ELSE
     Then(setParsedJoins(parsed, joinOptions, 1, e.b), LAMBDA j :
     IF j.err # NoErr THEN [err |-> j.err, b |-> j.b, lastIndex |-> li]
     ELSE IF ~many
     THEN [err |-> NoErr, b |-> setCache(j.b, parsed, options), lastIndex |-> li]
     ELSE
     Then(getSort(li, parsed, options.query), LAMBDA o :
       IF o.err # NoErr
       THEN [err |-> o.err, b |-> [j.b EXCEPT !.orderBy = o.val], lastIndex |-> o.lastIndex]
       ELSE [err |-> NoErr,
             b |-> setCache(setTakeSkip([j.b EXCEPT !.orderBy = o.val], parsed, options),
                            parsed, options),
             lastIndex |-> o.lastIndex]))))

createBuilder(li, hash, parsed, options, many) ==
  createBuilderAt(NewBuilders, li, hash, parsed, options, many)

(***************************************************************************)
(* The requests the service is given.                                      *)
(***************************************************************************)
InjectionFields == {"n'--", "c.n'--", "c.n'", "'or.x", "i=1;"}
SearchFields == {"id", "c.n", "zz", "x.y", "n'--", "c.n'--"}
SearchLeaf(field) == Obj1(field, Obj1("$eq", Num(1)))
\* the final search of the interceptor: {$and: [authFilter, ...conditions]}
SearchOf(conditions) == Obj1("$and", Arr(<<Undef>> \o conditions))
SearchTrees ==
  {SearchOf(<<Obj(<<>>)>>)} \cup {SearchOf(<<SearchLeaf(f)>>) : f \in SearchFields}
    \cup {SearchOf(<<SearchLeaf("id"), SearchLeaf(f)>>) : f \in {"zz", "c.n'--"}}
JoinOn(field) == Arr(<<[field |-> field, operator |-> "$eq", value |-> Num(1)]>>)
JoinLists ==
  {<<[field |-> "c", select |-> Undef, on |-> Undef]>>,
   <<[field |-> "c", select |-> Arr(<<"n">>), on |-> JoinOn("c.n")]>>,
   <<[field |-> "c", select |-> Undef, on |-> JoinOn("c.n'--")]>>,
   <<[field |-> "zz", select |-> Undef, on |-> JoinOn("n'--")]>>}
SortLists ==
  {<<[field |-> f, order |-> "ASC"]>> : f \in {"id", "c.n"} \cup InjectionFields}
\* requests with a search, with a join, with a sort, and with all of them
\* the scalar options of a parsed request that sent none of them
NoScalars == [limit |-> Undef, offset |-> Undef, page |-> Undef, cache |-> Undef]
WithScalars(parsed, scalars) ==
  [search |-> parsed.search, join |-> parsed.join, sort |-> parsed.sort,
   fields |-> parsed.fields, limit |-> scalars.limit, offset |-> scalars.offset,
   page |-> scalars.page, cache |-> scalars.cache]
ParsedSearches ==
  [search : SearchTrees, join : {<<>>}, sort : {<<>>}, fields : {<<>>}]
    \cup [search : {SearchOf(<<Obj(<<>>)>>)}, join : JoinLists, sort : {<<>>},
          fields : {<<>>}]
    \cup [search : {SearchOf(<<Obj(<<>>)>>)}, join : {<<>>}, sort : SortLists,
          fields : {<<>>}]
    \cup [search : {SearchOf(<<SearchLeaf("c.n")>>), SearchOf(<<SearchLeaf("c.n'--")>>)},
          join : {<<[field |-> "c", select |-> Undef, on |-> Undef]>>},
          sort : {<<[field |-> "id", order |-> "ASC"]>>,
                  <<[field |-> "c.n'", order |-> "ASC"]>>},
          fields : {<<"id", "zz">>}]
ParsedRequests == {WithScalars(parsed, NoScalars) : parsed \in ParsedSearches}

JoinOption(eager) ==
  [t |-> "join", eager |-> eager, alias |-> Undef, required |-> FALSE, select |-> TRUE,
   allow |-> <<>>, exclude |-> <<>>, persist |-> <<>>]
\* the options of the route: the relation c may be joined
ServiceOptions ==
  [query |-> [join |-> <<P("c", JoinOption(FALSE))>>, sort |-> <<>>,
              allow |-> <<>>, exclude |-> <<>>, persist |-> <<>>,
              limit |-> Undef, cache |-> Undef]]

NoBuilder == [wheres |-> <<>>, joins |-> <<>>, orderBy |-> <<>>, select |-> <<>>]
NoParsed ==
  WithScalars([search |-> Undef, join |-> <<>>, sort |-> <<>>, fields |-> <<>>], NoScalars)

\* getMany(req), for the parsed request `parsed`
getManyWith(parsed, options) ==
  \E run \in {createBuilder(lastIndex, entityRelationsHash, parsed, options, TRUE)} :
    /\ lastIndex' = run.lastIndex
    /\ entityRelationsHash' = run.b.hash
    /\ queryBuilder' = [wheres |-> run.b.wheres, joins |-> run.b.joins,
                        orderBy |-> run.b.orderBy, select |-> run.b.select]
    /\ outcome' = [op |-> "getMany", err |-> run.err, fetched |-> run.err = NoErr]
    /\ crudReq' = parsed
    /\ served' = served + 1
getManyOf(parsed) == getManyWith(parsed, ServiceOptions)

getMany ==
  /\ served < MaxRequests
  /\ \E parsed \in ParsedRequests : getManyOf(parsed)
  /\ UNCHANGED <<ivars, cvars, pvars>>

InitService ==
  /\ lastIndex = <<0, 0, 0, 0>>
  /\ entityRelationsHash = <<>>
  /\ queryBuilder = NoBuilder
  /\ outcome = [op |-> "none", err |-> NoErr, fetched |-> FALSE]
  /\ crudReq = NoParsed
  /\ served = 0


(***************************************************************************)
(* The operations of the service on the storage.  A request holds the      *)
(* parsed parameters and the options of the route; getCrudRequest places   *)
(* crudOptions.query, routes, params and operators in it without copying   *)
(* them, so an operation that assigns to req.options.query assigns to the  *)
(* object of the route.  A run of an operation is a record: the exception  *)
(* that left it, the storage calls it made, its value, the request's       *)
(* parsed parameters, the options object, the builder it made last.        *)
(***************************************************************************)
MaxRows == 25         \* most rows a search matches
MaxStorageCalls == 3  \* storage calls of the longest operation

StorageError == Error("QueryFailedError")
NotFoundException(msg) == [ex |-> "NotFoundException", msg |-> msg]
throwNotFoundException(name) == NotFoundException(name \o " not found")

\* the row a fetch finds
Row == Obj(<<P("id", Num(1)), P("n", Str("a"))>>)
\* {...a, ...b, ...}: the own properties of the objects, the later ones winning
RECURSIVE Spread(_)
Spread(objects) ==
  IF objects = <<>> THEN <<>>
  ELSE LET last == objects[Len(objects)]
       IN Assign(Spread(SubSeq(objects, 1, Len(objects) - 1)),
                 IF last.t = "obj" THEN last.kv ELSE <<>>)
\* repo.save(entity): the entity as stored, with its generated primary key
save(entity) == Obj(Spread(<<Obj1("id", Num(1)), entity>>))

FreshBuilder(hash) ==
  [wheres |-> <<>>, joins |-> <<>>, orderBy |-> <<>>, select |-> <<>>, hash |-> hash,
   take |-> Undef, skip |-> Undef, cache |-> Undef]

\* the run of an operation that has not started
Begin(parsed) ==
  [err |-> NoErr, calls |-> <<>>, saved |-> <<>>, val |-> Undef, parsed |-> parsed,
   options |-> routeOptions, li |-> lastIndex, hash |-> entityRelationsHash,
   b |-> FreshBuilder(entityRelationsHash)]

\* the rest of an operation, which an exception skips
Try(r, Rest(_)) == Then(r, LAMBDA v : IF v.err # NoErr THEN v ELSE Rest(v))

\* await of a storage call: the call is made, and fails when the storage fails it
await(r, call) ==
  LET made == Append(r.calls, call)
  IN [r EXCEPT !.calls = made,
               !.err = IF Len(made) = repo.failAt THEN StorageError ELSE NoErr]

\* await this.repo.save(entity): entity is handed to the storage
awaitSave(r, entity) == await([r EXCEPT !.saved = Append(@, entity)], "save")

\* getOneOrFail(req, shallow, withDeleted)
getOneOrFail(r, shallow, withDeleted) ==
  Then(IF shallow
       THEN Then(setSearchCondition(NewBuilders, 1, r.parsed.search, {}, "$and"),
                 LAMBDA s : [err |-> s.err, lastIndex |-> r.li,
                             b |-> [FreshBuilder(r.hash) EXCEPT !.wheres = s.st.ws[1]]])
       ELSE createBuilder(r.li, r.hash, r.parsed, r.options, TRUE),
    LAMBDA c :
      IF c.err # NoErr
      THEN [r EXCEPT !.err = c.err, !.li = c.lastIndex, !.hash = c.b.hash, !.b = c.b]
      ELSE Try(await([r EXCEPT !.li = c.lastIndex, !.hash = c.b.hash, !.b = c.b], "getOne"),
               LAMBDA f :
                 IF repo.rows = 0
                 THEN [f EXCEPT !.err = throwNotFoundException(Text(alias)), !.val = Null]
                 ELSE [f EXCEPT !.val = Row]))

\* getOne(req)
getOne(r) == getOneOrFail(r, FALSE, FALSE)

\* getParamFilters(parsed)
getParamFilters(parsed) ==
  Obj(Spread([i \in 1..Len(parsed.paramsFilter) |->
                Obj1(parsed.paramsFilter[i].field, parsed.paramsFilter[i].value)]))

\* a prepareEntityBeforeSave that leaves authPersist out of the entity
prepareEntityBeforeSaveNoPersist(dto, parsed) ==
  IF ~isObject(dto) THEN Undef
  ELSE LET withParams == Spread(<<dto, getParamFilters(parsed)>>)
       IN IF ~hasLength(withParams) THEN Undef
          ELSE Obj(withParams)

\* prepareEntityBeforeSave(dto, parsed): undefined for no object and for an
\* object without keys
prepareEntityBeforeSave(dto, parsed) ==
  IF ~isObject(dto) THEN Undef
  ELSE LET withParams == Spread(<<dto, getParamFilters(parsed)>>)
       IN IF ~hasLength(withParams) THEN Undef
          ELSE Obj(Spread(<<Obj(withParams), parsed.authPersist>>))

\* getPrimaryParams(options): the fields of the route parameters declared primary
getPrimaryParams(options) ==
  LET primary == SelectSeq(options.params, LAMBDA p : p.v.primary)
  IN [i \in 1..Len(primary) |-> primary[i].v.field]

\* primaryParams.reduce((acc, p) => ({ ...acc, [p]: entity[p] }), {})
PrimarySearch(primaryParams, entity) ==
  Obj([i \in 1..Len(primaryParams) |-> P(primaryParams[i], Get(entity, primaryParams[i]))])

\* createOne(req, dto)
createOne(r, dto) ==
  LET returnShallow == r.options.routes.createOneBase.returnShallow
      entity == prepareEntityBeforeSave(dto, r.parsed)
  IN IF entity = Undef
     THEN [r EXCEPT !.err = throwBadRequestException("Empty data. Nothing to save.")]
     ELSE Try(awaitSave(r, entity), LAMBDA s :
            IF returnShallow THEN [s EXCEPT !.val = save(entity)]
            \* line 139: no array is both empty and has some element
            ELSE getOneOrFail(
                   [s EXCEPT !.parsed.search =
                               PrimarySearch(getPrimaryParams(s.options), save(entity))],
                   FALSE, FALSE))

\* createMany(req, dto)
createMany(r, dto) ==
  IF ~isObject(dto) \/ ~isArrayFull(Get(dto, "bulk"))
  THEN [r EXCEPT !.err = throwBadRequestException("Empty data. Nothing to save.")]
  ELSE LET all == Get(dto, "bulk").items
           prepared == [i \in 1..Len(all) |-> prepareEntityBeforeSave(all[i], r.parsed)]
           bulk == SelectSeq(prepared, LAMBDA d : d # Undef)
       IN IF ~hasLength(bulk)
          THEN [r EXCEPT !.err = throwBadRequestException("Empty data. Nothing to save.")]
          ELSE Try(await([r EXCEPT !.saved = bulk], "save"), LAMBDA s :
                 [s EXCEPT !.val = Arr([i \in 1..Len(bulk) |-> save(bulk[i])])])

\* req.options.query.cache = false
DisableCache(r) == [r EXCEPT !.options.query.cache = Bool(FALSE)]

\* updateOne(req, dto)
updateOne(r, dto) ==
  LET flags == r.options.routes.updateOneBase
      paramsFilters == getParamFilters(r.parsed)
  IN Try(getOneOrFail(DisableCache(r), flags.returnShallow, FALSE), LAMBDA f :
       LET toSave == IF ~flags.allowParamsOverride
                     THEN Obj(Spread(<<f.val, dto, paramsFilters, f.parsed.authPersist>>))
                     ELSE Obj(Spread(<<f.val, dto, f.parsed.authPersist>>))
           updated == save(toSave)
           filters == f.parsed.paramsFilter
       IN Try(awaitSave(f, toSave), LAMBDA s :
            IF flags.returnShallow THEN [s EXCEPT !.val = updated]
            ELSE getOneOrFail(
                   [s EXCEPT !.parsed.paramsFilter =
                      [i \in 1..Len(filters) |->
                         [filters[i] EXCEPT !.value = Get(updated, filters[i].field)]]],
                   FALSE, FALSE)))

\* recoverOne(req)
recoverOne(r) ==
  Try(getOneOrFail(DisableCache(r), FALSE, TRUE), LAMBDA f :
    Try(await(f, "recover"), LAMBDA s : s))

\* replaceOne(req, dto): .catch(() => null) turns every exception of the
\* fetch into no row found
replaceOne(r, dto) ==
  LET flags == r.options.routes.replaceOneBase
      paramsFilters == getParamFilters(r.parsed)
  IN Then(getOneOrFail(DisableCache(r), flags.returnShallow, FALSE), LAMBDA fetched :
       LET found == IF fetched.err # NoErr THEN Null ELSE fetched.val
           f == [fetched EXCEPT !.err = NoErr, !.val = found]
           toSave == IF ~flags.allowParamsOverride
                     THEN Obj(Spread(<<found, dto, paramsFilters, f.parsed.authPersist>>))
                     ELSE Obj(Spread(<<found, paramsFilters, dto, f.parsed.authPersist>>))
           replaced == save(toSave)
           primaryParams == getPrimaryParams(f.options)
       IN Try(awaitSave(f, toSave), LAMBDA s :
            IF flags.returnShallow \/ ~hasLength(primaryParams)
            THEN [s EXCEPT !.val = replaced]
            ELSE getOneOrFail(
                   [s EXCEPT !.parsed.search = PrimarySearch(primaryParams, replaced)],
                   FALSE, FALSE)))

\* deleteOne(req)
deleteOne(r) ==
  LET returnDeleted == r.options.routes.deleteOneBase.returnDeleted
  IN Try(getOneOrFail(DisableCache(r), returnDeleted, FALSE), LAMBDA f :
       Try(await(f, IF f.options.query.softDelete = Bool(TRUE) THEN "softRemove"
                    ELSE "remove"),
           LAMBDA s : [s EXCEPT !.val = IF returnDeleted THEN f.val ELSE Undef]))

\* decidePagination(parsed, options): the route always paginates, or the
\* client sent a page or a limit
decidePagination(parsed, options) ==
  Truthy(options.query.alwaysPaginate) \/ parsed.page.t = "num" \/ parsed.limit.t = "num"

NaN == [t |-> "nan"]
\* Math.ceil(a / b), Math.floor(a / b) for a >= 0, b >= 0
Ceil(a, b) == IF b = 0 THEN NaN ELSE Num((a + b - 1) \div b)
Floor(a, b) == IF b = 0 THEN NaN ELSE Num(a \div b)
RowList(n) == [t |-> "rows", n |-> n]

\* createPageInfo(data, total, limit, offset): the paged envelope
createPageInfo(data, total, limit, offset) ==
  [t |-> "page", data |-> data, count |-> data.n, total |-> total, limit |-> limit,
   page |-> IF Floor(offset, limit) = NaN THEN NaN ELSE Num(Floor(offset, limit).n + 1),
   pageCount |-> Ceil(total, limit)]

\* what the storage returns for the builder: the rows after `skip`, at most `take`
Fetch(b) ==
  LET skip == IF Truthy(b.skip) THEN b.skip.n ELSE 0
      left == IF repo.rows > skip THEN repo.rows - skip ELSE 0
  IN RowList(IF Truthy(b.take) /\ b.take.n < left THEN b.take.n ELSE left)

\* a doGetMany that never counts: the bare row list whatever the request
doGetManyNeverCounts(r) ==
  Try(await(r, "getMany"), LAMBDA s : [s EXCEPT !.val = Fetch(s.b)])

\* doGetMany(builder, query, options)
doGetMany(r) ==
  IF decidePagination(r.parsed, r.options)
  THEN Try(await(r, "getManyAndCount"), LAMBDA s :
         LET total == repo.rows
             limit == s.b.take
             offset == s.b.skip
         IN [s EXCEPT !.val = createPageInfo(Fetch(s.b), total,
                                             IF Truthy(limit) THEN limit.n ELSE total,
                                             IF Truthy(offset) THEN offset.n ELSE 0)])
  ELSE Try(await(r, "getMany"), LAMBDA s : [s EXCEPT !.val = Fetch(s.b)])

\* getMany(req): createBuilder, then doGetMany
getManyRun(r) ==
  Then(createBuilder(r.li, r.hash, r.parsed, r.options, TRUE), LAMBDA c :
    LET built == [r EXCEPT !.li = c.lastIndex, !.hash = c.b.hash, !.b = c.b]
    IN IF c.err # NoErr THEN [built EXCEPT !.err = c.err] ELSE doGetMany(built))

(***************************************************************************)
(* The requests, the payloads, the routes and the storages of the          *)
(* operations.                                                             *)
(***************************************************************************)
CrudRequestOf(scalars, paramsFilter, authPersist) ==
  [search |-> SearchOf(<<SearchLeaf("id")>>), join |-> <<>>, sort |-> <<>>,
   fields |-> <<>>, limit |-> scalars.limit, offset |-> scalars.offset,
   page |-> scalars.page, cache |-> scalars.cache,
   paramsFilter |-> paramsFilter, authPersist |-> authPersist]
IdFilter == <<[field |-> "id", operator |-> "$eq", value |-> Num(1)]>>
\* requests for one entity
EntityRequests ==
  {CrudRequestOf(NoScalars, <<>>, Undef),
   CrudRequestOf(NoScalars, IdFilter, Obj1("owner", Num(7)))}
\* requests for a list: with and without limit, offset, page, and cache=0
ListRequests ==
  {CrudRequestOf(scalars, <<>>, Undef) :
     scalars \in [limit : {Undef, Num(2), Num(10)}, offset : {Undef, Num(1)},
                  page : {Undef, Num(2)}, cache : {Undef}]
                   \cup {[NoScalars EXCEPT !.cache = Num(0)]}}
Dtos == {Undef, Obj(<<>>), Obj1("n", Str("b"))}
BulkDtos == {Undef, Obj1("bulk", Arr(<<>>)), Obj1("bulk", Arr(<<Obj1("n", Str("b")), Undef>>))}

RouteOptions(flag) ==
  [createOneBase |-> [returnShallow |-> flag],
   updateOneBase |-> [allowParamsOverride |-> flag, returnShallow |-> flag],
   replaceOneBase |-> [allowParamsOverride |-> flag, returnShallow |-> flag],
   deleteOneBase |-> [returnDeleted |-> flag]]
CrudOptionsOf(cache, limit, alwaysPaginate, softDelete, flag) ==
  [query |-> [join |-> <<>>, sort |-> <<>>, allow |-> <<>>, exclude |-> <<>>,
              persist |-> <<>>, limit |-> limit, cache |-> cache,
              alwaysPaginate |-> Bool(alwaysPaginate), softDelete |-> Bool(softDelete)],
   routes |-> RouteOptions(flag),
   params |-> <<P("id", [field |-> "id", type |-> "number", primary |-> TRUE,
                         disabled |-> FALSE])>>,
   operators |-> Undef]

\* routes that cache or not, with the flags of their handlers set or not
CrudOptionsSet ==
  {CrudOptionsOf(cache, Undef, FALSE, flag, flag) :
     cache \in {Undef, Num(2000)}, flag \in BOOLEAN}
\* routes that always paginate or not, with a limit of their own or not
PagingOptionsSet ==
  {CrudOptionsOf(Num(2000), limit, alwaysPaginate, FALSE, FALSE) :
     limit \in {Undef, Num(3)}, alwaysPaginate \in BOOLEAN}
\* the storages of the operations: no row or one row, and the storage call
\* of an operation that fails, if any
Storages == [rows : {0, 1}, failAt : 0..MaxStorageCalls]
\* the storages of the lists: every number of rows, no failure or a failing fetch
ListStorages == [rows : 0..MaxRows, failAt : {0, 1}]

NoOperation ==
  [name |-> "none", err |-> NoErr, calls |-> <<>>, saved |-> <<>>, val |-> Undef,
   parsed |-> NoParsed,
   take |-> Undef, skip |-> Undef, cache |-> Undef]

\* the end of an operation: what it left in the service and in the options
\* object of the route
Record(name, r) ==
  /\ operation' = [name |-> name, err |-> r.err, calls |-> r.calls, saved |-> r.saved,
                   val |-> r.val,
                   parsed |-> r.parsed, take |-> r.b.take, skip |-> r.b.skip,
                   cache |-> r.b.cache]
  /\ routeOptions' = r.options
  /\ lastIndex' = r.li
  /\ entityRelationsHash' = r.hash
  /\ served' = served + 1
  /\ UNCHANGED <<queryBuilder, outcome, crudReq, repo>>
  /\ UNCHANGED ivars
Finish(name, r) == Record(name, r) /\ UNCHANGED pvars

\* the handlers of the routes: each hands its request to the service
getManyBase ==
  /\ served < MaxOperations
  /\ \E parsed \in ListRequests : \E r \in {getManyRun(Begin(parsed))} :
       Finish("getMany", r)
getOneBase ==
  /\ served < MaxOperations
  /\ \E parsed \in EntityRequests : \E r \in {getOne(Begin(parsed))} :
       Finish("getOne", r)
createOneBase ==
  /\ served < MaxOperations
  /\ \E parsed \in EntityRequests, dto \in Dtos : \E r \in {createOne(Begin(parsed), dto)} :
       Finish("createOne", r)
createManyBase ==
  /\ served < MaxOperations
  /\ \E parsed \in EntityRequests, dto \in BulkDtos :
       \E r \in {createMany(Begin(parsed), dto)} : Finish("createMany", r)
updateOneBase ==
  /\ served < MaxOperations
  /\ \E parsed \in EntityRequests, dto \in Dtos : \E r \in {updateOne(Begin(parsed), dto)} :
       Finish("updateOne", r)
replaceOneBase ==
  /\ served < MaxOperations
  /\ \E parsed \in EntityRequests, dto \in Dtos : \E r \in {replaceOne(Begin(parsed), dto)} :
       Finish("replaceOne", r)
deleteOneBase ==
  /\ served < MaxOperations
  /\ \E parsed \in EntityRequests : \E r \in {deleteOne(Begin(parsed))} :
       Finish("deleteOne", r)
recoverOneBase ==
  /\ served < MaxOperations
  /\ \E parsed \in EntityRequests : \E r \in {recoverOne(Begin(parsed))} :
       Finish("recoverOne", r)


(***************************************************************************)
(* The writes on their own: one write per behaviour, with payloads, route  *)
(* parameters and persist values that name the same fields.                *)
(***************************************************************************)
\* authPersist on owner, on the field of the route parameter, on a column
\* of the found row
PersistObjects ==
  {Obj(<<>>), Obj1("owner", Num(7)), Obj(<<P("owner", Num(7)), P("id", Num(5))>>),
   Obj1("n", Str("p"))}
WriteRequests ==
  {CrudRequestOf(NoScalars, paramsFilter, authPersist) :
     paramsFilter \in {<<>>, IdFilter}, authPersist \in PersistObjects}
WriteDtos ==
  {Undef, Obj(<<>>), Obj1("n", Str("b")),
   Obj(<<P("id", Num(9)), P("n", Str("b")), P("owner", Num(9))>>)}
WriteBulks ==
  {Obj1("bulk", Arr(<<one>>)) : one \in WriteDtos}
    \cup {Obj1("bulk", Arr(<<Obj1("id", Num(9)), Obj1("owner", Num(9))>>))}

createOneWrite ==
  /\ operation = NoOperation
  /\ \E parsed \in WriteRequests, dto \in WriteDtos :
       \E r \in {createOne(Begin(parsed), dto)} :
         /\ Record("createOne", r)
         /\ input' = [parsed |-> parsed, dto |-> dto]
         /\ UNCHANGED output
createManyWrite ==
  /\ operation = NoOperation
  /\ \E parsed \in WriteRequests, dto \in WriteBulks :
       \E r \in {createMany(Begin(parsed), dto)} :
         /\ Record("createMany", r)
         /\ input' = [parsed |-> parsed, dto |-> dto]
         /\ UNCHANGED output
updateOneWrite ==
  /\ operation = NoOperation
  /\ \E parsed \in WriteRequests, dto \in WriteDtos :
       \E r \in {updateOne(Begin(parsed), dto)} :
         /\ Record("updateOne", r)
         /\ input' = [parsed |-> parsed, dto |-> dto]
         /\ UNCHANGED output
replaceOneWrite ==
  /\ operation = NoOperation
  /\ \E parsed \in WriteRequests, dto \in WriteDtos :
       \E r \in {replaceOne(Begin(parsed), dto)} :
         /\ Record("replaceOne", r)
         /\ input' = [parsed |-> parsed, dto |-> dto]
         /\ UNCHANGED output

\* no operation of the service has run
InitCrud ==
  /\ routeOptions = CrudOptionsOf(Undef, Undef, FALSE, FALSE, FALSE)
  /\ repo = [rows |-> 0, failAt |-> 0]
  /\ operation = NoOperation
\* no function is under study
InitPure == input = Undef /\ output = Undef

(***************************************************************************)
(* The compiler on its own: setSearchCondition applied to one search tree  *)
(* with an inherited combinator and the custom operators of the route.     *)
(***************************************************************************)
NullLeaf(field) == Obj1(field, Null)
OperatorLeaf(field, operator, value) == Obj1(field, Obj1(operator, value))
And(items) == Obj1("$and", Arr(items))
Or(items) == Obj1("$or", Arr(items))

\* the custom operators of a route: $cust, $arr (array-valued), $custp (with
\* a parameter map of its own)
Customs ==
  {[name |-> "$cust", isArray |-> FALSE, query |-> "CUST", params |-> Undef],
   [name |-> "$arr", isArray |-> TRUE, query |-> "ARR", params |-> Undef],
   [name |-> "$custp", isArray |-> FALSE, query |-> "CUSTP",
    params |-> Obj1("fixed", Num(5))]}

\* trees with null leaves: alone, under $and, $or and $not, beside other
\* fields, and three levels deep
NullTrees ==
  {NullLeaf("id"), NullLeaf("c.n"),
   And(<<NullLeaf("id"), SearchLeaf("n")>>),
   Or(<<NullLeaf("id"), SearchLeaf("n")>>),
   Or(<<And(<<NullLeaf("c.n"), SearchLeaf("id")>>), NullLeaf("n")>>),
   Obj(<<P("id", Null), P("n", Num(1))>>),
   Obj(<<P("$or", Arr(<<NullLeaf("id"), SearchLeaf("n")>>)), P("n", Null)>>),
   Obj1("$not", Arr(<<NullLeaf("id")>>)),
   And(<<Or(<<And(<<NullLeaf("id"), SearchLeaf("n")>>), SearchLeaf("id")>>),
         SearchLeaf("n")>>)}
\* values for the operators that take an array
ArrayValues ==
  {Num(1), Str("ab"), Null, Arr(<<>>), Arr(<<Num(1)>>), Arr(<<Num(1), Num(2)>>),
   Arr(<<Num(1), Num(2), Num(3)>>)}
ArrayTrees ==
  {OperatorLeaf("id", operator, value) :
     operator \in ArrayOperators \cup {"$between", "$arr"}, value \in ArrayValues}
\* operators outside the operator table
CustomTrees ==
  {OperatorLeaf("id", operator, value) :
     operator \in {"$cust", "$custp", "$nope"}, value \in {Num(1), Str("ab")}}
    \cup {Or(<<SearchLeaf("n"), OperatorLeaf("id", operator, Num(1))>>) :
            operator \in {"$cust", "$nope"}}
PlainTrees ==
  {Null, Obj(<<>>), SearchLeaf("id"), OperatorLeaf("id", "$gt", Num(1)),
   Obj1("id", Obj(<<P("$gt", Num(1)), P("$lt", Num(9))>>)),
   Obj1("id", Obj1("$or", Obj(<<P("$eq", Num(1)), P("$isnull", Bool(TRUE))>>)))}
\* one operator of the operator table on a field, with a value or with null
ShapeOperators == {"$eq", "$ne", "$gt", "$isnull", "$notnull"}
ShapeTrees ==
  {OperatorLeaf("id", operator, value) :
     operator \in ShapeOperators, value \in {Null, Bool(TRUE), Num(1)}}
\* a node with $or beside a field: one alternative or two, $or first or
\* last, an alternative with two fields
OrSiblingNodes ==
  {Obj(<<P("n", Num(1)), P("$or", Arr(<<SearchLeaf("id")>>))>>),
   Obj(<<P("$or", Arr(<<SearchLeaf("id")>>)), P("n", Num(1))>>),
   Obj(<<P("n", Num(1)), P("$or", Arr(<<Obj(<<P("id", Num(1)), P("c.n", Num(2))>>)>>))>>),
   Obj(<<P("n", Num(1)), P("$or", Arr(<<SearchLeaf("id"), SearchLeaf("c.n")>>))>>),
   Obj(<<P("$or", Arr(<<SearchLeaf("id"), SearchLeaf("c.n")>>)), P("n", Num(1))>>)}
\* the node alone, and as a child of a parent $or
OrSiblingTrees ==
  OrSiblingNodes \cup {Or(<<node, SearchLeaf("c.id")>>) : node \in OrSiblingNodes}
\* a field with an operator map of two or three operators, alone and as an
\* alternative of an $or, and a field with a nested $or of two operators
MultiOperatorLeaves ==
  {Obj1("id", Obj(<<P("$gt", Num(1)), P("$lt", Num(9))>>)),
   Obj1("id", Obj(<<P("$gt", Num(1)), P("$lt", Num(9)), P("$ne", Num(5))>>))}
NestedOrLeaf == Obj1("id", Obj1("$or", Obj(<<P("$eq", Num(1)), P("$isnull", Bool(TRUE))>>)))
MultiOperatorTrees ==
  MultiOperatorLeaves \cup {Or(<<leaf, SearchLeaf("n")>>) : leaf \in MultiOperatorLeaves}
    \cup {NestedOrLeaf}
\* a node with $and or $not and other keys beside it
MixedTrees ==
  {Obj(<<P("$and", Arr(<<SearchLeaf("id")>>)), P("n", Num(1))>>),
   Obj(<<P("n", Num(1)), P("$and", Arr(<<SearchLeaf("id"), SearchLeaf("c.n")>>))>>),
   Obj(<<P("$not", Arr(<<SearchLeaf("id")>>)), P("n", Num(1))>>),
   Obj(<<P("$not", Arr(<<SearchLeaf("id")>>)), P("$and", Arr(<<SearchLeaf("n")>>))>>),
   Obj(<<P("$and", Arr(<<SearchLeaf("id")>>)),
         P("$or", Arr(<<SearchLeaf("n"), SearchLeaf("c.n")>>))>>),
   Obj(<<P("$not", Arr(<<SearchLeaf("id")>>)), P("$or", Arr(<<SearchLeaf("n")>>))>>)}
CompileTrees ==
  NullTrees \cup ArrayTrees \cup CustomTrees \cup PlainTrees \cup ShapeTrees
    \cup OrSiblingTrees \cup MultiOperatorTrees \cup MixedTrees
CompileInputs ==
  [search : CompileTrees, condition : {"$and", "$or"}, customOperators : {{}, Customs}]

\* what a compilation leaves: the exception, if any, and the where-entries
\* of the builder
Compiled(search, customOperators, condition) ==
  Then(setSearchCondition(NewBuilders, 1, search, customOperators, condition), LAMBDA r :
    [err |-> r.err, wheres |-> r.st.ws[1]])

compileSearch ==
  /\ output = Undef
  /\ input # Undef
  /\ output' = Compiled(input.search, input.customOperators, input.condition)
  /\ UNCHANGED <<input, ivars, svars, cvars>>

(***************************************************************************)
(* createBuilder on its own: one parsed request with joins, a sort and a   *)
(* limit, on a route that declares some relations.                         *)
(***************************************************************************)
JoinOf(field) == [field |-> field, select |-> Undef, on |-> Undef]
\* join lists that ask for declared and undeclared relations, in both orders
JoinRequests ==
  {<<JoinOf("zz")>>, <<JoinOf("c")>>, <<JoinOf("zz"), JoinOf("c")>>,
   <<JoinOf("c"), JoinOf("zz")>>, <<JoinOf("zz"), JoinOf("x.y")>>,
   <<JoinOf("c"), JoinOf("c.p")>>, <<JoinOf("c"), JoinOf("zz"), JoinOf("c.p")>>}
DeclaredJoin(required, joinAlias) ==
  [JoinOption(FALSE) EXCEPT !.required = required, !.alias = joinAlias]
\* the join options of the routes: none, c, c and c.p; required or not
JoinOptionsSet ==
  {<<>>,
   <<P("c", DeclaredJoin(FALSE, Undef))>>,
   <<P("c", DeclaredJoin(TRUE, Undef))>>,
   <<P("c", DeclaredJoin(TRUE, Undef)), P("c.p", DeclaredJoin(FALSE, Undef))>>,
   <<P("c", DeclaredJoin(FALSE, Str("co"))), P("c.p", DeclaredJoin(TRUE, Undef))>>}
BuilderInputs ==
  {[parsed |-> WithScalars([search |-> SearchOf(<<SearchLeaf("id")>>), join |-> join,
                            sort |-> sort, fields |-> <<>>],
                           [NoScalars EXCEPT !.limit = limit]),
    options |-> [query |-> [ServiceOptions.query EXCEPT !.join = joinOptions,
                                                        !.cache = cache]]] :
     join \in JoinRequests, joinOptions \in JoinOptionsSet,
     sort \in {<<>>, <<[field |-> "id", order |-> "ASC"]>>},
     limit \in {Undef, Num(2)}, cache \in {Undef, Num(2000)}}

\* the builder createBuilder returns for a request of a fresh service
Built(parsed, options) ==
  Then(createBuilder(<<0, 0, 0, 0>>, <<>>, parsed, options, TRUE), LAMBDA r :
    [err |-> r.err, b |-> r.b])

buildQuery ==
  /\ output = Undef
  /\ input # Undef
  /\ output' = Built(input.parsed, input.options)
  /\ UNCHANGED <<input, ivars, svars, cvars>>

(***************************************************************************)
(* createBuilder under the clocks of the host: requests with one or two    *)
(* WHERE leaves and with ON conditions on one or two declared joins.       *)
(***************************************************************************)
NamedLeaf(field, n) == Obj1(field, Obj1("$eq", Num(n)))
NamedSearches ==
  {SearchOf(<<NamedLeaf(f, 1)>>) : f \in {"id", "status"}}
    \cup {SearchOf(<<NamedLeaf(f, 1), NamedLeaf(g, 2)>>) :
             f \in {"id", "n"}, g \in {"id", "n", "status"}}
NamedJoin(field, on) == [field |-> field, select |-> Undef, on |-> on]
NamedJoins ==
  {<<>>,
   <<NamedJoin("c", JoinOn("c.n"))>>,
   <<NamedJoin("c", Undef), NamedJoin("c.p", JoinOn("p.id"))>>,
   <<NamedJoin("c", JoinOn("c.n")), NamedJoin("c.p", JoinOn("p.id"))>>,
   <<NamedJoin("c", Arr(JoinOn("c.n").items \o JoinOn("c.id").items)),
     NamedJoin("c.p", Undef)>>}
NamedOptions ==
  {[query |-> [ServiceOptions.query EXCEPT !.join = joinOptions]] :
     joinOptions \in {<<P("c", DeclaredJoin(r, Undef)), P("c.p", DeclaredJoin(FALSE, Undef))>> :
                        r \in BOOLEAN}}
NamedInputs ==
  [parsed : {WithScalars([search |-> search, join |-> join, sort |-> <<>>,
                          fields |-> <<>>], NoScalars) :
               search \in NamedSearches, join \in NamedJoins},
   options : NamedOptions, clock : Clocks]

buildNamed ==
  /\ output = Undef
  /\ input # Undef
  /\ output' = Then(createBuilderAt(input.clock, <<0, 0, 0, 0>>, <<>>, input.parsed,
                                    input.options, TRUE),
                    LAMBDA r : [err |-> r.err, b |-> r.b])
  /\ UNCHANGED <<input, ivars, svars, cvars>>

(***************************************************************************)
(* createBuilder for requests that select columns of the entity and of     *)
(* the relation c, on routes that allow, exclude and persist columns.      *)
(***************************************************************************)
SelectLists == {Undef, Arr(<<"n">>), Arr(<<"id", "zz">>), Arr(<<"n", "n", "id">>)}
SelectJoins ==
  {<<[field |-> "c", select |-> select, on |-> Undef]>> : select \in SelectLists}
    \cup {<<[field |-> "c", select |-> select, on |-> Undef], JoinOf("c.p")>> :
             select \in SelectLists}
SelectFields == {<<>>, <<"n">>, <<"status", "zz", "n">>}
\* the columns a route or a join option allows, excludes and persists
ColumnOptions ==
  {[allow |-> <<>>, exclude |-> <<>>, persist |-> <<>>],
   [allow |-> <<"id">>, exclude |-> <<>>, persist |-> <<>>],
   [allow |-> <<>>, exclude |-> <<"n">>, persist |-> <<>>],
   [allow |-> <<>>, exclude |-> <<"n">>, persist |-> <<"n">>],
   [allow |-> <<"id", "n">>, exclude |-> <<"id">>, persist |-> <<>>]}
SelectJoinOptions ==
  {<<P("c", [JoinOption(FALSE) EXCEPT !.alias = joinAlias, !.select = select,
                                      !.allow = columns.allow,
                                      !.exclude = columns.exclude,
                                      !.persist = columns.persist]),
     P("c.p", JoinOption(FALSE))>> :
     joinAlias \in {Undef, Str("co")}, select \in BOOLEAN, columns \in ColumnOptions}
SelectInputs ==
  {[parsed |-> WithScalars([search |-> SearchOf(<<SearchLeaf("id")>>), join |-> join,
                            sort |-> <<>>, fields |-> fields], NoScalars),
    options |-> [query |-> [ServiceOptions.query EXCEPT !.join = joinOptions,
                                                        !.allow = columns.allow,
                                                        !.exclude = columns.exclude,
                                                        !.persist = columns.persist]]] :
     join \in SelectJoins, fields \in SelectFields, joinOptions \in SelectJoinOptions,
     columns \in ColumnOptions}

(***************************************************************************)
(* The relations cache of one service: getRelationMetadata called for the  *)
(* relations c, c.p and an unknown one under the join options of several   *)
(* routes, and the requests of one route that declares c and c.p.          *)
(***************************************************************************)
RelationFields == {"c", "c.p", "zz"}
RelationOptions ==
  {[JoinOption(FALSE) EXCEPT !.alias = joinAlias, !.allow = allow] :
     joinAlias \in {Undef, Str("co"), Str("c")}, allow \in {<<>>, <<"id">>}}

resolveRelation ==
  \E field \in RelationFields, options \in RelationOptions :
    \E m \in {getRelationMetadata(entityRelationsHash, field, options)} :
      /\ entityRelationsHash' = m.hash
      /\ input' = [field |-> field, options |-> options]
      /\ output' = [val |-> m.val]
      /\ UNCHANGED <<lastIndex, queryBuilder, outcome, crudReq, served>>
      /\ UNCHANGED <<ivars, cvars>>

NestedRequests ==
  {WithScalars([search |-> SearchOf(<<SearchLeaf("id")>>), join |-> join,
                sort |-> <<>>, fields |-> <<>>], NoScalars) :
     join \in {<<JoinOf("c")>>, <<JoinOf("c.p")>>, <<JoinOf("c"), JoinOf("c.p")>>,
               <<JoinOf("c.p"), JoinOf("c")>>}}
NestedOptions ==
  {[query |-> [ServiceOptions.query EXCEPT !.join = joinOptions]] :
     joinOptions \in {<<P("c", DeclaredJoin(required, joinAlias)),
                        P("c.p", DeclaredJoin(FALSE, nested))>> :
                        required \in BOOLEAN, joinAlias \in {Undef, Str("co")},
                        nested \in {Undef, Str("pe")}}}

\* getMany(req) on the route whose options are input.options
getManyNested ==
  /\ served < MaxRequests
  /\ \E parsed \in NestedRequests : getManyWith(parsed, input.options)
  /\ UNCHANGED <<ivars, cvars, pvars>>

(***************************************************************************)
(* normalizeIndexedParams on its own: one query object, as its entries in  *)
(* the order of Object.entries.                                            *)
(***************************************************************************)
MaxKeys == 3          \* most keys of a query object

CharAt(str, i) == SubSeq(str, i, i)
isDigit(c) == c \in {"0", "1", "2", "3", "4", "5", "6", "7", "8", "9"}
DigitOf(c) ==
  CASE c = "0" -> 0 [] c = "1" -> 1 [] c = "2" -> 2 [] c = "3" -> 3 [] c = "4" -> 4
    [] c = "5" -> 5 [] c = "6" -> 6 [] c = "7" -> 7 [] c = "8" -> 8 [] c = "9" -> 9
\* Number(text) for a text of digits
RECURSIVE NumberOfDigits(_)
NumberOfDigits(text) ==
  IF Len(text) = 0 THEN 0
  ELSE NumberOfDigits(SubSeq(text, 1, Len(text) - 1)) * 10 + DigitOf(CharAt(text, Len(text)))

\* key.match(/^([^\[\]]+)\[(\d+)]$/): the base key and the index, or null
NoMatch == [t |-> "null"]
matchIndexed(key) ==
  LET n == Len(key)
      opens == {i \in 1..n : CharAt(key, i) = "["}
      closes == {i \in 1..n : CharAt(key, i) = "]"}
  IN IF n >= 4 /\ closes = {n} /\ Cardinality(opens) = 1
     THEN LET open == CHOOSE i \in opens : TRUE
          IN IF /\ open >= 2 /\ open <= n - 2
                /\ \A i \in (open + 1)..(n - 1) : isDigit(CharAt(key, i))
             THEN [t |-> "match", baseKey |-> SubSeq(key, 1, open - 1),
                   index |-> NumberOfDigits(SubSeq(key, open + 1, n - 1))]
             ELSE NoMatch
     ELSE NoMatch

\* array[index] = value: the array grows to index + 1 elements, with holes
SetIndex(items, index, value) ==
  LET len == IF Len(items) > index + 1 THEN Len(items) ELSE index + 1
  IN [i \in 1..len |-> IF i = index + 1 THEN value
                       ELSE IF i <= Len(items) THEN items[i] ELSE Undef]

\* lines 105-118: the entries from entry i on, put into result
RECURSIVE collectIndexed(_, _, _)
collectIndexed(kv, i, res) ==
  IF i > Len(kv) THEN res
  ELSE LET key == kv[i].k
           value == kv[i].v
           match == matchIndexed(key)
       IN IF match # NoMatch
          THEN LET held == IF HashHas(res, match.baseKey)
                                /\ HashGet(res, match.baseKey).t = "arr"
                           THEN HashGet(res, match.baseKey).items ELSE <<>>
               IN collectIndexed(kv, i + 1,
                    HashSet(res, match.baseKey,
                            Arr(SetIndex(held, match.index, value))))
          ELSE collectIndexed(kv, i + 1, HashSet(res, key, value))

\* lines 120-124: result[key].filter((v) => v !== undefined)
filterHoles(res) ==
  [i \in 1..Len(res) |->
     IF res[i].v.t = "arr"
     THEN P(res[i].k, Arr(SelectSeq(res[i].v.items, LAMBDA v : v # Undef)))
     ELSE res[i]]

normalizeIndexedParams(in) == Obj(filterHoles(collectIndexed(in.kv, 1, <<>>)))

\* the keys and the values of the query objects
QueryKeys == {"a", "b", "a[0]", "a[1]", "a[2]", "a[01]", "b[7]", "a[x]"}
QueryValues == {Str("x"), Str("y"), Arr(<<Str("x"), Str("y")>>)}
QueryObjects ==
  {Obj(kv) : kv \in
     {s \in UNION {[1..n -> [k : QueryKeys, v : QueryValues]] : n \in 0..MaxKeys} :
        \A i, j \in 1..Len(s) : s[i].k = s[j].k => i = j}}

normalizeQuery ==
  /\ output = Undef
  /\ input # Undef
  /\ output' = normalizeIndexedParams(input)
  /\ UNCHANGED <<input, ivars, svars, cvars>>

(***************************************************************************)
(* parseExtraFromQueryParam on its own: the query object of one request,   *)
(* normalized as parseQuery does before it reads the extra parameters.     *)
(***************************************************************************)
\* this._options.paramNamesMap.extra
ExtraParamNames == <<"extra">>
startsWith(str, prefix) ==
  Len(str) >= Len(prefix) /\ SubSeq(str, 1, Len(prefix)) = prefix
\* k.replace('extra.', ''): the first occurrence is removed
replaceExtra(k) ==
  LET word == "extra."
      hits == {i \in 1..Len(k) : i + Len(word) - 1 <= Len(k)
                                   /\ SubSeq(k, i, i + Len(word) - 1) = word}
  IN IF hits = {} THEN k
     ELSE LET at == CHOOSE i \in hits : \A h \in hits : i <= h
          IN Text(SubSeq(Chars(k), 1, at - 1)
                    \o SubSeq(Chars(k), at + Len(word), Len(k)))

\* parseDotChainToObject(data, key, result): keys is key.split('.'), res the
\* entries of `result`
RECURSIVE parseDotChainToObject(_, _, _)
parseDotChainToObject(data, keys, res) ==
  IF Len(keys) > 1
  THEN HashSet(res, Text(keys[1]), Obj(parseDotChainToObject(data, Tail(keys), <<>>)))
  ELSE HashSet(res, Text(keys[1]), parseValue(data.s))

\* the reduce of lines 263-269 from entry i on
RECURSIVE reduceExtra(_, _, _)
reduceExtra(query, i, o) ==
  IF i > Len(query.kv) THEN o
  ELSE LET k == query.kv[i].k
       IN IF \E n \in 1..Len(ExtraParamNames) : startsWith(k, ExtraParamNames[n])
          THEN reduceExtra(query, i + 1,
                 parseDotChainToObject(query.kv[i].v, SplitDot(Chars(replaceExtra(k))), o))
          ELSE reduceExtra(query, i + 1, o)

parseExtraFromQueryParam(query) ==
  LET extraKeys == reduceExtra(query, 1, <<>>)
  IN IF Len(extraKeys) > 0 THEN Obj(extraKeys) ELSE Undef

\* the extra parameters of the requests, and a parameter that is not one
ExtraKeys == {"extra.a.b", "extra.a.c", "extra.a.b.e", "extra.d", "extra.f.g", "filter"}
ExtraTexts == {"1", "abc"}
ExtraQueries ==
  {Obj(kv) : kv \in
     {s \in UNION {[1..n -> [k : ExtraKeys, v : {Str(text) : text \in ExtraTexts}]] :
                     n \in 0..MaxKeys} :
        \A i, j \in 1..Len(s) : s[i].k = s[j].k => i = j}}

parseExtra ==
  /\ output = Undef
  /\ input # Undef
  /\ output' = [extra |-> parseExtraFromQueryParam(normalizeIndexedParams(input))]
  /\ UNCHANGED <<input, ivars, svars, cvars>>


(***************************************************************************)
(* parseParams on its own: the route parameters of one request, on a       *)
(* parser that holds no filter or the filters of an earlier call.          *)
(***************************************************************************)
MaxParams == 2        \* most route parameters of a request

UuidText == "6f0b1a3c-0000-4000-8000-000000000001"
\* CrudOptions.params: a number, a string, a uuid and a disabled parameter
ParamDescriptors ==
  [id |-> [field |-> "id", type |-> "number", disabled |-> FALSE],
   slug |-> [field |-> "name", type |-> "string", disabled |-> FALSE],
   uid |-> [field |-> "uuid", type |-> "uuid", disabled |-> FALSE],
   ver |-> [field |-> "ver", type |-> "number", disabled |-> TRUE]]
ParamNames == {"id", "slug", "uid", "ver", "zz"}
ParamTexts == {"1", "abc", "1.0", UuidText}
ParamObjects ==
  {Obj(kv) : kv \in
     {s \in UNION {[1..n -> [k : ParamNames, v : {Str(text) : text \in ParamTexts}]] :
                     n \in 0..MaxParams} :
        \A i, j \in 1..Len(s) : s[i].k = s[j].k => i = j}}
ParamsInputs ==
  [parser : {NewParser,
             [NewParser EXCEPT !.paramsFilter =
                <<[field |-> "id", operator |-> "$eq", value |-> Num(2)]>>]},
   params : ParamObjects, options : {ParamDescriptors}]

parseRouteParams ==
  /\ output = Undef
  /\ input # Undef
  /\ output' = parseParams(input.parser, input.params, input.options)
  /\ UNCHANGED <<input, ivars, svars, cvars>>



(***************************************************************************)
(* The specifications: the interceptor on one request object, the service  *)
(* over a sequence of requests, and both.                                  *)
(***************************************************************************)
vars == <<ivars, svars, cvars, pvars>>
InitInterceptor ==
  /\ req \in Requests /\ route \in Routes /\ FreshRequest
  /\ InitService /\ InitCrud /\ InitPure
InitGetMany ==
  /\ req = [query |-> [search |-> Undef, filter |-> <<>>, or |-> <<>>],
            params |-> Obj(<<>>), user |-> Undef]
  /\ route = Undef
  /\ FreshRequest
  /\ InitService /\ InitCrud /\ InitPure
NoRequest ==
  /\ req = [query |-> [search |-> Undef, filter |-> <<>>, or |-> <<>>],
            params |-> Obj(<<>>), user |-> Undef]
  /\ route = Undef
  /\ FreshRequest
InitOperations ==
  /\ NoRequest /\ InitService /\ InitPure
  /\ routeOptions \in CrudOptionsSet
  /\ repo \in Storages
  /\ operation = NoOperation
NextOperations ==
  \/ getManyBase \/ getOneBase \/ createOneBase \/ createManyBase
  \/ updateOneBase \/ replaceOneBase \/ deleteOneBase \/ recoverOneBase
SpecOperations == InitOperations /\ [][NextOperations]_vars
InitLists ==
  /\ NoRequest /\ InitService /\ InitPure
  /\ routeOptions \in PagingOptionsSet
  /\ repo \in ListStorages
  /\ operation = NoOperation
NextLists == getManyBase
InitCompile ==
  /\ NoRequest /\ InitService /\ InitCrud
  /\ input \in CompileInputs
  /\ output = Undef
NextCompile == compileSearch
InitNormalize ==
  /\ NoRequest /\ InitService /\ InitCrud
  /\ input \in QueryObjects
  /\ output = Undef
NextNormalize == normalizeQuery
InitParams ==
  /\ NoRequest /\ InitService /\ InitCrud
  /\ input \in ParamsInputs
  /\ output = Undef
NextParams == parseRouteParams
InitExtra ==
  /\ NoRequest /\ InitService /\ InitCrud
  /\ input \in ExtraQueries
  /\ output = Undef
NextExtra == parseExtra
InitWrites ==
  /\ NoRequest /\ InitService /\ InitPure
  /\ routeOptions \in CrudOptionsSet
  /\ repo \in [rows : {0, 1}, failAt : {0}]
  /\ operation = NoOperation
NextWrites == createOneWrite \/ createManyWrite \/ updateOneWrite \/ replaceOneWrite
InitBuilder ==
  /\ NoRequest /\ InitService /\ InitCrud
  /\ input \in BuilderInputs
  /\ output = Undef
NextBuilder == buildQuery
InitSelect ==
  /\ NoRequest /\ InitService /\ InitCrud
  /\ input \in SelectInputs
  /\ output = Undef
InitRelations == NoRequest /\ InitService /\ InitCrud /\ InitPure
NextRelations == resolveRelation
InitNested ==
  /\ NoRequest /\ InitService /\ InitCrud
  /\ input \in [options : NestedOptions]
  /\ output = Undef
NextNested == getManyNested
InitNames ==
  /\ NoRequest /\ InitService /\ InitCrud
  /\ input \in NamedInputs
  /\ output = Undef
NextNames == buildNamed
SpecNormalize == InitNormalize /\ [][NextNormalize]_vars
SpecParams == InitParams /\ [][NextParams]_vars
SpecExtra == InitExtra /\ [][NextExtra]_vars
SpecWrites == InitWrites /\ [][NextWrites]_vars
SpecBuilder == InitBuilder /\ [][NextBuilder]_vars
SpecNames == InitNames /\ [][NextNames]_vars
SpecRelations == InitRelations /\ [][NextRelations]_vars
SpecNested == InitNested /\ [][NextNested]_vars
SpecSelect == InitSelect /\ [][NextBuilder]_vars
SpecCompile == InitCompile /\ [][NextCompile]_vars
SpecLists == InitLists /\ [][NextLists]_vars
Init == InitInterceptor
NextInterceptor == intercept
NextService == getMany
Next == intercept \/ getMany
SpecInterceptor == InitInterceptor /\ [][NextInterceptor]_vars
SpecService == InitGetMany /\ [][NextService]_vars
Spec == Init /\ [][Next]_vars

(***************************************************************************)
(* What a search tree means for a row: the keys of a node are ANDed, $and  *)
(* and $or combine their elements, a field maps to a value or to a map of  *)
(* operators.  Every node of the trees the assembler builds here has one   *)
(* key, so the compiler's treatment of several keys plays no part.         *)
(***************************************************************************)
Rows ==
  [owner : {Num(7), Num(9)}, id : {Num(1), Num(2)}, status : {Num(1), Num(2)},
   name : {Null, Str("x")}]

LeafSat(row, field, operator, v) ==
  LET x == row[field] IN
  CASE operator \in {"$eq", "eq"} -> x = v
    [] operator \in {"$ne", "ne"} -> x.t # "null" /\ x # v
    [] operator \in {"$gt", "gt"} -> x.t = "num" /\ v.t = "num" /\ x.n > v.n
    [] operator \in {"$lt", "lt"} -> x.t = "num" /\ v.t = "num" /\ x.n < v.n
    [] operator \in {"$in", "in"} -> \E i \in 1..Len(v.items) : v.items[i] = x
    [] operator \in {"$isnull", "isnull"} -> x.t = "null"
    [] operator \in {"$notnull", "notnull"} -> x.t # "null"
    [] OTHER -> FALSE

RECURSIVE Sat(_, _)
Sat(row, cond) ==
  IF cond.t # "obj" THEN TRUE
  ELSE \A i \in 1..Len(cond.kv) :
         LET k == cond.kv[i].k
             v == cond.kv[i].v
         IN CASE k = "$and" -> \A j \in 1..Len(v.items) : Sat(row, v.items[j])
              [] k = "$or" -> \E j \in 1..Len(v.items) : Sat(row, v.items[j])
              [] v.t = "obj" ->
                   \A j \in 1..Len(v.kv) : LeafSat(row, k, v.kv[j].k, v.kv[j].v)
              [] OTHER -> LeafSat(row, k, IF v.t = "null" THEN "$isnull" ELSE "$eq", v)

(***************************************************************************)
(* The request as the claims see it.                                       *)
(***************************************************************************)
Attached == Truthy(attached)
WithCtrl == ~isNil(route)
FinalSearch == attached.parsed.search
RouteFilter == IF WithCtrl THEN route.query.filter ELSE Undef

\* the route parameters that are declared and not disabled, with their values
RouteParamHolds(row, i) ==
  LET name == req.params.kv[i].k
      text == req.params.kv[i].v.s
  IN (name \in DOMAIN ParamsOptions /\ ~ParamsOptions[name].disabled)
       => row[ParamsOptions[name].field] = Num(CHOOSE n \in 0..9 : ToString(n) = text)
RouteParamsHold(row) == \A i \in 1..Len(req.params.kv) : RouteParamHolds(row, i)
HasRouteParams ==
  \E i \in 1..Len(req.params.kv) :
    req.params.kv[i].k \in DOMAIN ParamsOptions /\ ~ParamsOptions[req.params.kv[i].k].disabled

\* C4 as stated: on a route with route parameters, every row the final search
\* accepts satisfies every route-parameter filter, whatever the auth rule does.
C4_ParamsAlwaysAnded ==
  (Attached /\ WithCtrl) => \A row \in Rows : Sat(row, FinalSearch) => RouteParamsHold(row)

\* C4 amended: every row the final search accepts satisfies every
\* route-parameter filter, or satisfies the condition the auth `or` hook returned.
C4_ParamsAndedUnlessAuthOr ==
  (Attached /\ WithCtrl) =>
     \A row \in Rows :
        Sat(row, FinalSearch) =>
          \/ RouteParamsHold(row)
          \/ Truthy(trace.auth.or) /\ Sat(row, trace.auth.or)

C4_Witness ==
  /\ Attached /\ WithCtrl /\ HasRouteParams
  /\ ~Truthy(trace.auth.or) /\ Truthy(trace.auth.filter)
  /\ req.query.filter # <<>> /\ RouteFilter = StaticCond
  /\ \E row \in Rows : Sat(row, FinalSearch)
  /\ \E row \in Rows : ~Sat(row, FinalSearch) /\ ~RouteParamsHold(row)

(***************************************************************************)
(* The search the claims expect, written from the request and the route.   *)
(***************************************************************************)
\* {field: {operator: value}}
convPlain(f) == Obj1(f.field, Obj1(f.operator, f.value))
\* the same, but the operators isnull and notnull carry true
convEmptyTrue(f) ==
  Obj1(f.field, Obj1(f.operator,
       IF f.operator = "isnull" \/ f.operator = "notnull" THEN Bool(TRUE) ELSE f.value))

AndOf(items) == Obj1("$and", Arr(items))
OrOf(items) == Obj1("$or", Arr(items))

FromFilterAndOr(F, O, conv(_)) ==
  CASE F # <<>> /\ O # <<>> /\ Len(F) = 1 /\ Len(O) = 1 ->
         <<OrOf(<<conv(F[1]), conv(O[1])>>)>>
    [] F # <<>> /\ O # <<>> /\ (Len(F) > 1 \/ Len(O) > 1) ->
         <<OrOf(<<AndOf(MapSeq(conv, F)), AndOf(MapSeq(conv, O))>>)>>
    [] F # <<>> /\ O = <<>> -> MapSeq(conv, F)
    [] F = <<>> /\ O # <<>> /\ Len(O) = 1 -> <<conv(O[1])>>
    [] F = <<>> /\ O # <<>> /\ Len(O) > 1 -> <<OrOf(MapSeq(conv, O))>>
    [] OTHER -> <<>>

SearchSent == ~isNil(req.query.search)
SentSearchObject == JSONParse(req.query.search.s).val
ExpectedClient ==
  IF SearchSent THEN <<SentSearchObject>>
  ELSE FromFilterAndOr(attached.parsed.filter, attached.parsed.or, convEmptyTrue)
ExpectedParams == MapSeq(convEmptyTrue, attached.parsed.paramsFilter)
ExpectedOptions ==
  CASE isNil(RouteFilter) -> <<Obj(<<>>)>>
    [] RouteFilter.t = "filters" -> MapSeq(convEmptyTrue, RouteFilter.items)
    [] RouteFilter.t = "fn" ->
         <<CASE RouteFilter.fn = "pin" -> TenantCond
             [] RouteFilter.fn = "merge" /\ SearchSent -> AndOf(<<SentSearchObject, TenantCond>>)
             [] RouteFilter.fn = "merge" -> TenantCond
             [] OTHER -> Obj(<<>>)>>
    [] OTHER -> <<RouteFilter>>
ExpectedList == ExpectedParams \o ExpectedOptions \o ExpectedClient

\* C5: with a condition authOr from the auth rule's `or`, the final search is
\* {$or: [authOr, {$and: [...paramsSearch, ...optionsFilter, ...clientSearch]}]}
\* and the auth `filter` function is not called; without one it is
\* {$and: [authFilter, ...paramsSearch, ...optionsFilter, ...clientSearch]}.
C5_FinalSearchShape ==
  (Attached /\ WithCtrl) =>
     IF route.auth.or = "cond"
     THEN /\ FinalSearch = OrOf(<<AuthOrCond, AndOf(ExpectedList)>>)
          /\ calls.authFilter = 0
     ELSE FinalSearch = AndOf(<<trace.auth.filter>> \o ExpectedList)

\* C6: whatever the form of the options filter, the list getSearch returns is
\* the params search, then the options filter result, then the client search.
C6_ListHasClientSearch ==
  Attached => trace.list = ExpectedList

\* C7 as stated: without `search`, the client search is built from the filter
\* list F and the or list O by the five cases, with conv(f) = {field: {operator: value}}.
C7_ClientSearchPlainConv ==
  (Attached /\ ~SearchSent /\ ~isFunction(RouteFilter)) =>
     trace.list = ExpectedParams \o ExpectedOptions
                    \o FromFilterAndOr(attached.parsed.filter, attached.parsed.or, convPlain)

\* C7 amended: the same five cases, where conv(f) = {field: {operator: value}}
\* except that the operators isnull and notnull carry true instead of the value.
C7_ClientSearchCases ==
  (Attached /\ ~SearchSent /\ ~isFunction(RouteFilter)) =>
     trace.list = ExpectedParams \o ExpectedOptions
                    \o FromFilterAndOr(attached.parsed.filter, attached.parsed.or, convEmptyTrue)

C7_Witness ==
  /\ Attached /\ ~SearchSent /\ ~isFunction(RouteFilter)
  /\ Len(attached.parsed.filter) = 2 /\ Len(attached.parsed.or) = 2
  /\ attached.parsed.or[2].operator = "isnull"
  /\ trace.list[Len(trace.list)].kv[1].k = "$or"

\* C8: a `search` parameter holding a JSON object leaves filter and or empty
\* and unparsed, and is itself the client search; a `search` parameter that
\* is not a JSON object fails with RequestQueryException('Invalid search
\* param. JSON expected').
ObjectSearchTexts == {TxtStatusEq1, TxtEmptyObj}
C8_SearchSupersedes ==
  (SearchSent /\ calls.intercept > 0) =>
     IF req.query.search.s \in ObjectSearchTexts
     THEN /\ trace.err.msg \notin {"Invalid filter value", "Invalid or value"}
          /\ Attached =>
               /\ attached.parsed.filter = <<>> /\ attached.parsed.or = <<>>
               /\ IF isFunction(RouteFilter)
                  THEN trace.fnArg = SentSearchObject
                  ELSE trace.list[Len(trace.list)] = SentSearchObject
     ELSE /\ trace.err = RequestQueryException("Invalid search param. JSON expected")
          /\ ~Attached

C8_Witness ==
  /\ SearchSent /\ Attached /\ req.query.search.s = TxtStatusEq1
  /\ req.query.filter = <<BadFilter>> /\ req.query.or # <<>>
  /\ attached.parsed.filter = <<>>

\* C9: once a parsed request is attached, a later invocation leaves it
\* unchanged, runs neither the parser nor the options-filter and auth
\* functions, and calls next.handle().
C9_AttachedOnce ==
  [][Attached =>
       /\ attached' = attached
       /\ calls'.parse = calls.parse
       /\ calls'.filterFn = calls.filterFn
       /\ calls'.authOr = calls.authOr
       /\ calls'.authFilter = calls.authFilter
       /\ calls'.next = calls.next + 1
       /\ result'.out = "handle"]_vars

C9_Witness ==
  /\ Attached /\ calls.intercept = 2 /\ calls.next = 2 /\ calls.parse = 1
  /\ isFunction(RouteFilter) /\ calls.filterFn = 1
  /\ calls.authOr = 1

\* C10: a RequestQueryException from query or route-parameter parsing leaves
\* intercept as a BadRequestException with the same message, without calling
\* next.handle() and without attaching anything; an exception of another type
\* leaves it unchanged.
QueryParseFails ==
  \/ SearchSent /\ req.query.search.s \notin ObjectSearchTexts
  \/ ~SearchSent /\ req.query.filter = <<BadFilter>>
ParamsParseFails ==
  /\ WithCtrl
  /\ \E i \in 1..Len(req.params.kv) :
       \/ req.params.kv[i].k \notin DOMAIN ParamsOptions
       \/ /\ ParamsOptions[req.params.kv[i].k].type = "number"
          /\ \A n \in 0..9 : ToString(n) # req.params.kv[i].v.s
HookFails ==
  /\ WithCtrl
  /\ \/ RouteFilter = Fn("throw")
     \/ "throw" \in {route.auth.or, route.auth.filter, route.auth.persist}
C10_ParserErrorsBecomeBadRequest ==
  calls.intercept > 0 =>
    /\ (QueryParseFails \/ ParamsParseFails) =>
         /\ trace.err.ex = "RequestQueryException"
         /\ result = [out |-> "throw", error |-> BadRequestException(trace.err.msg)]
         /\ calls.next = 0
         /\ ~Attached
    /\ (~QueryParseFails /\ ~ParamsParseFails /\ HookFails) =>
         /\ trace.err.ex = "Error"
         /\ result = [out |-> "throw", error |-> trace.err]
         /\ calls.next = 0
         /\ ~Attached
    /\ trace.err = NoErr => (Attached /\ result.out = "handle")

C10_Witness ==
  /\ calls.intercept = 2 /\ ParamsParseFails /\ ~QueryParseFails
  /\ result.error = BadRequestException("Invalid param id. Number expected")
  /\ calls.next = 0 /\ ~Attached

(***************************************************************************)
(* The service as the claims see it.                                       *)
(***************************************************************************)
Contains(str, word) ==
  \E p \in 1..(Len(str) - Len(word) + 1) : SubSeq(str, p, p + Len(word) - 1) = word

\* the field holds one of the four signatures: a fresh pattern matches it
HasSignature(field) ==
  \E i \in 1..Len(sqlInjectionRegEx) : test(sqlInjectionRegEx[i], 0, Chars(field)).matched

\* the fragments the builder holds, in its wheres at any depth and in its joins
RECURSIVE WhereStrs(_)
WhereStrs(entries) ==
  UNION {IF entries[i].kind = "leaf" THEN {entries[i].str}
         ELSE WhereStrs(entries[i].condition) : i \in 1..Len(entries)}
Fragments ==
  WhereStrs(queryBuilder.wheres)
    \cup {queryBuilder.joins[i].str : i \in 1..Len(queryBuilder.joins)}

Served == outcome.op = "getMany"
\* the fields of the leaves of the request's search
SearchLeafFields ==
  UNION {{crudReq.search.kv[1].v.items[i].kv[k].k :
            k \in 1..Len(crudReq.search.kv[1].v.items[i].kv)} :
         i \in 2..Len(crudReq.search.kv[1].v.items)}
Declared(relation) == Truthy(JoinOptionOf(ServiceOptions.query.join, relation))
\* the fields of the ON conditions of the request's joins of declared relations
JoinOnFields ==
  UNION {IF Declared(crudReq.join[i].field) /\ Truthy(crudReq.join[i].on)
         THEN {crudReq.join[i].on.items[k].field : k \in 1..Len(crudReq.join[i].on.items)}
         ELSE {} : i \in 1..Len(crudReq.join)}

\* C1: a leaf of the WHERE or of a join's ON whose field name holds an
\* injection signature makes the operation fail with a bad request, and no
\* fragment with that field name is attached to the builder.
C1_SignatureLeafFails ==
  Served =>
    \A f \in SearchLeafFields \cup JoinOnFields :
      HasSignature(Text(getFieldWithAlias(f, FALSE))) =>
        /\ outcome.err.ex = "BadRequestException"
        /\ \A str \in Fragments : ~Contains(str, f)

\* C2: whatever the service checked before, a sort field that holds an
\* injection signature is rejected with a bad request.
SortReached == Served /\ Len(crudReq.sort) > 0
C2_CheckIsHistoryIndependent ==
  SortReached =>
    (HasSignature(Text(getFieldWithAlias(crudReq.sort[1].field, TRUE)))
       => outcome.err.ex = "BadRequestException")

\* C3: compilation succeeds only if every field of a search leaf is an allowed
\* column of the entity, or a column of a relation that is declared in the
\* join options and joined.
Joined(relation) ==
  \E i \in 1..Len(queryBuilder.joins) : queryBuilder.joins[i].alias = relation
Authorized(field) ==
  LET cols == SplitDot(Chars(field)) IN
  IF Len(cols) = 1
  THEN InSeq(field, getAllowedColumns(entityColumns, ServiceOptions.query))
  ELSE /\ Len(cols) = 2
       /\ Declared(Text(cols[1])) /\ Joined(Text(cols[1]))
       /\ HashHas(entityRelationsHash, Text(cols[1]))
       /\ InSeq(Text(cols[2]), HashGet(entityRelationsHash, Text(cols[1])).allowedColumns)
C3_OnlyAuthorizedFieldsCompile ==
  (Served /\ outcome.err = NoErr) => \A f \in SearchLeafFields : Authorized(f)

(***************************************************************************)
(* The operations of the service as the claims see them.                   *)
(***************************************************************************)
Ran(name) == operation.name = name
Failed == operation.err # NoErr

\* C11: every operation of the service leaves the options object of the
\* route as it was, so that a later getMany on a caching route still caches.
C11_OptionsUnchanged == [][routeOptions' = routeOptions]_vars

\* the storage call of the last operation that the storage failed, if any
StorageFailed == ~Ran("none") /\ repo.failAt \in 1..Len(operation.calls)

\* C12: when a storage call of an operation fails, the operation ends with
\* that error and makes no further storage call; replaceOne included.
C12_StorageFailurePropagates ==
  StorageFailed => (operation.err = StorageError /\ Len(operation.calls) = repo.failAt)

(***************************************************************************)
(* The compiler as the claims see it.                                      *)
(***************************************************************************)
Applied == output # Undef
\* the leaves of the where-entries, at every depth
RECURSIVE LeafEntries(_)
LeafEntries(entries) ==
  UNION {IF entries[i].kind = "leaf" THEN {entries[i]}
         ELSE LeafEntries(entries[i].condition) : i \in 1..Len(entries)}
TypeOf(condition) == IF condition = "$and" THEN "and" ELSE "or"
FieldText(field) == Text(getFieldWithAlias(field, FALSE))

\* the fields of the leaves {field: null} of a search tree, where the tree is
\* read as the compiler reads it: the elements of $not, else of $and, else of
\* $or with the other keys of the node
RECURSIVE NullFields(_)
NullFields(search) ==
  IF search.t # "obj" THEN {}
  ELSE LET own == {search.kv[i].k : i \in {i \in 1..Len(search.kv) : search.kv[i].v = Null}}
           Under(items) == UNION {NullFields(items[i]) : i \in 1..Len(items)}
       IN IF isArrayFull(Get(search, "$not")) THEN Under(Get(search, "$not").items)
          ELSE IF isArrayFull(Get(search, "$and")) THEN Under(Get(search, "$and").items)
          ELSE IF isArrayFull(Get(search, "$or")) THEN Under(Get(search, "$or").items) \cup own
          ELSE own

\* C13: a leaf {field: null} compiles, under either combinator and at any
\* depth, to `<field> IS NULL` with an empty parameter map, and no parameter
\* of a compiled fragment is bound to null.
C13_NullLeafIsNull ==
  (Applied /\ output.err = NoErr) =>
    /\ \A field \in NullFields(input.search) :
         \E entry \in LeafEntries(output.wheres) :
           entry.str = FieldText(field) \o " IS NULL" /\ entry.params = <<>>
    /\ \A entry \in LeafEntries(output.wheres) :
         \A i \in 1..Len(entry.params) : entry.params[i].v # Null
    /\ \A field \in {"id", "c.n"} :
         input.search = NullLeaf(field) =>
           output.wheres = <<Leaf(TypeOf(input.condition),
                                  FieldText(field) \o " IS NULL", <<>>)>>

C13_Witness ==
  /\ Applied /\ output.err = NoErr /\ input.condition = "$or"
  /\ input.search = And(<<Or(<<And(<<NullLeaf("id"), SearchLeaf("n")>>), SearchLeaf("id")>>),
                          SearchLeaf("n")>>)
  /\ \E entry \in LeafEntries(output.wheres) : entry.str = FieldText("id") \o " IS NULL"

\* the search is one leaf {id: {operator: value}} with an array operator
IsArrayLeaf ==
  /\ input.search \in ArrayTrees
  /\ input.search.kv[1].v.kv[1].k = "$arr" => input.customOperators = Customs
LeafOperator == input.search.kv[1].v.kv[1].k
LeafValue == input.search.kv[1].v.kv[1].v

\* C14: an array operator, $between included, and a custom operator declared
\* isArray fail with a bad request and attach nothing for a value that is no
\* array or an empty array; $between also fails for an array of another
\* length than 2, and binds <param>0 and <param>1 to the two elements.
C14_ArrayValueRequired ==
  (Applied /\ IsArrayLeaf) =>
    IF \/ LeafValue.t # "arr"
       \/ Len(LeafValue.items) = 0
       \/ (LeafOperator = "$between" /\ Len(LeafValue.items) # 2)
    THEN output.err.ex = "BadRequestException" /\ output.wheres = <<>>
    ELSE /\ output.err = NoErr
         /\ Len(output.wheres) = 1
         /\ LeafOperator = "$between" =>
              LET params == output.wheres[1].params
              IN /\ Len(params) = 2
                 /\ params[1].v = LeafValue.items[1]
                 /\ params[2].v = LeafValue.items[2]
                 /\ \E param \in {SubSeq(params[1].k, 1, Len(params[1].k) - 1)} :
                      /\ params[1].k = param \o "0"
                      /\ params[2].k = param \o "1"
                      /\ output.wheres[1].str =
                           FieldText("id") \o " BETWEEN :" \o param \o "0 AND :" \o param \o "1"

\* the search is one leaf {id: {operator: value}} with an operator outside
\* the operator table
IsCustomLeaf ==
  input.search \in {OperatorLeaf("id", operator, value) :
                      operator \in {"$cust", "$custp", "$nope"}, value \in {Num(1), Str("ab")}}
Registered == {c \in input.customOperators : c.name = LeafOperator}
StartsWith(str, prefix) ==
  Len(str) >= Len(prefix) /\ SubSeq(str, 1, Len(prefix)) = prefix

\* C15: for an operator outside the operator table, a registered custom
\* operator gives the fragment of its query(field, param), with its params
\* map when it declares one; without a registered one the compilation fails
\* with a bad request and attaches nothing.
C15_UnknownOperatorFails ==
  (Applied /\ IsCustomLeaf) =>
    IF Registered # {}
    THEN /\ output.err = NoErr
         /\ Len(output.wheres) = 1
         /\ \A c \in Registered :
              /\ StartsWith(output.wheres[1].str, c.query \o "(" \o FieldText("id") \o ", :")
              /\ Truthy(c.params) => output.wheres[1].params = c.params.kv
    ELSE output.err.ex = "BadRequestException" /\ output.wheres = <<>>

\* C16: compiling {$and: [X]} and compiling {$or: [X]} with an inherited
\* combinator attach the same where-entries, and end the same way, as
\* compiling X with that combinator.
C16_SingletonCollapses ==
  Applied =>
    /\ Compiled(And(<<input.search>>), input.customOperators, input.condition) = output
    /\ Compiled(Or(<<input.search>>), input.customOperators, input.condition) = output

C16_Witness ==
  /\ Applied /\ input.condition = "$or"
  /\ input.search = Or(<<And(<<NullLeaf("c.n"), SearchLeaf("id")>>), NullLeaf("n")>>)
  /\ Len(output.wheres) = 1 /\ output.wheres[1].type = "or"
  /\ Len(output.wheres[1].condition) = 2

(***************************************************************************)
(* createBuilder as the claims see it.                                     *)
(***************************************************************************)
AskedJoins == input.parsed.join
RouteJoins == input.options.query.join
\* the joins the request asks for that the route declares
DeclaredJoins == SelectSeq(AskedJoins, LAMBDA j : Truthy(JoinOptionOf(RouteJoins, j.field)))

\* C17: a join the route does not declare adds no join and no select and
\* raises nothing, the other joins, the sort, the limit and the cache are
\* still processed and the request succeeds; a declared relation is joined
\* with INNER JOIN when it is required and with LEFT JOIN otherwise.
C17_UndeclaredJoinSkipped ==
  Applied =>
    /\ output.err = NoErr
    /\ output = Built([input.parsed EXCEPT !.join = DeclaredJoins], input.options)
    /\ Len(output.b.joins) = Len(DeclaredJoins)
    /\ \A i \in 1..Len(DeclaredJoins) :
         output.b.joins[i].type =
           IF JoinOptionOf(RouteJoins, DeclaredJoins[i].field).required
           THEN "innerJoin" ELSE "leftJoin"
    /\ Len(output.b.orderBy) = Len(input.parsed.sort)
    /\ Truthy(input.parsed.limit) => output.b.take = input.parsed.limit
    /\ output.b.cache = input.options.query.cache

C17_Witness ==
  /\ Applied /\ output.err = NoErr
  /\ AskedJoins = <<JoinOf("c"), JoinOf("zz"), JoinOf("c.p")>>
  /\ Len(output.b.joins) = 2
  /\ output.b.joins[1].type = "innerJoin" /\ output.b.joins[2].type = "leftJoin"
  /\ output.b.cache = Num(2000) /\ output.b.take = Num(2) /\ Len(output.b.orderBy) = 1

(***************************************************************************)
(* getMany as the claims see it.                                           *)
(***************************************************************************)
\* the limit and the rows skipped that the request and the route ask for
AskedLimit ==
  IF Truthy(operation.parsed.limit) THEN operation.parsed.limit
  ELSE routeOptions.query.limit
AskedSkip ==
  IF Truthy(operation.parsed.page) /\ Truthy(AskedLimit)
  THEN AskedLimit.n * (operation.parsed.page.n - 1)
  ELSE IF Truthy(operation.parsed.offset) THEN operation.parsed.offset.n ELSE 0
\* the rows left after the skipped ones, cut at the limit
RowsReturned ==
  LET left == IF repo.rows > AskedSkip THEN repo.rows - AskedSkip ELSE 0
  IN IF Truthy(AskedLimit) /\ AskedLimit.n < left THEN AskedLimit.n ELSE left
PaginationActive ==
  \/ routeOptions.query.alwaysPaginate = Bool(TRUE)
  \/ operation.parsed.page.t = "num"
  \/ operation.parsed.limit.t = "num"
\* the limit of the envelope: the limit asked for, else the total
EnvelopeLimit == IF Truthy(AskedLimit) THEN AskedLimit.n ELSE repo.rows

IsIndexed(key) == matchIndexed(key) # NoMatch
\* the entries of the input whose key is base[i], and the bases they name
IndexedEntries(base) ==
  {i \in 1..Len(input.kv) :
     IsIndexed(input.kv[i].k) /\ matchIndexed(input.kv[i].k).baseKey = base}
BaseKeys ==
  {matchIndexed(input.kv[i].k).baseKey :
     i \in {j \in 1..Len(input.kv) : IsIndexed(input.kv[j].k)}}
PlainEntries == {i \in 1..Len(input.kv) : ~IsIndexed(input.kv[i].k)}
\* items holds the values of the entries, each once, by growing index
InIndexOrder(items, entries) ==
  /\ Len(items) = Cardinality(entries)
  /\ \E f \in [1..Len(items) -> entries] :
       /\ \A p, q \in 1..Len(items) :
            p < q => matchIndexed(input.kv[f[p]].k).index
                       < matchIndexed(input.kv[f[q]].k).index
       /\ \A p \in 1..Len(items) : items[p] = input.kv[f[p]].v

\* C19: normalizeIndexedParams puts the values of the keys base[i] in a
\* sequence under base, in the order of i whatever the order of the keys,
\* without the missing indexes and without losing a value, leaves every
\* other key as it is, changes nothing when no key is indexed, and is
\* idempotent.
C19_IndexedKeysCollapsed ==
  Applied =>
    /\ \A base \in BaseKeys :
         /\ HashHas(output.kv, base)
         /\ HashGet(output.kv, base).t = "arr"
         /\ InIndexOrder(HashGet(output.kv, base).items, IndexedEntries(base))
    /\ \A i \in PlainEntries :
         /\ HashHas(output.kv, input.kv[i].k)
         /\ HashGet(output.kv, input.kv[i].k) = input.kv[i].v
    /\ normalizeIndexedParams(output) = output
    /\ BaseKeys = {} => output = input

(***************************************************************************)
(* parseParams as the claims see it.                                       *)
(***************************************************************************)
Described(name) == name \in DOMAIN input.options
Enabled(name) == Described(name) /\ ~input.options[name].disabled
\* the texts that are a number, and the number they are
NumberTexts == {"1"}
\* the route parameter that cannot be parsed
BadParam(entry) ==
  \/ ~Described(entry.k)
  \/ /\ Enabled(entry.k) /\ input.options[entry.k].type = "number"
     /\ entry.v.s \notin NumberTexts
  \/ /\ Enabled(entry.k) /\ input.options[entry.k].type = "uuid"
     /\ entry.v.s # UuidText
EqFilterOf(entry) ==
  [field |-> input.options[entry.k].field, operator |-> "$eq",
   value |-> IF input.options[entry.k].type = "number" THEN Num(1) ELSE entry.v]
EnabledParams == SelectSeq(input.params.kv, LAMBDA entry : Enabled(entry.k))

\* C20: parseParams leaves in paramsFilter one $eq filter on the field of
\* the descriptor for each route parameter that is not disabled, in the
\* order of the route parameters; a name without a descriptor, a number that
\* does not parse and a uuid of the wrong shape make it fail, and then
\* paramsFilter is what it was before the call.
C20_OneFilterPerParam ==
  Applied =>
    IF \E i \in 1..Len(input.params.kv) : BadParam(input.params.kv[i])
    THEN /\ output.err.ex = "RequestQueryException"
         /\ output.parser.paramsFilter = input.parser.paramsFilter
    ELSE /\ output.err = NoErr
         /\ Len(input.params.kv) > 0 =>
              output.parser.paramsFilter =
                [i \in 1..Len(EnabledParams) |-> EqFilterOf(EnabledParams[i])]
         /\ Len(input.params.kv) = 0 =>
              output.parser.paramsFilter = input.parser.paramsFilter

C20_Witness ==
  /\ Applied /\ output.err = NoErr
  /\ input.params = Obj(<<P("uid", Str(UuidText)), P("id", Str("1"))>>)
  /\ input.parser.paramsFilter # <<>>
  /\ output.parser.paramsFilter =
       <<[field |-> "uuid", operator |-> "$eq", value |-> Str(UuidText)],
         [field |-> "id", operator |-> "$eq", value |-> Num(1)]>>

(***************************************************************************)
(* parseExtraFromQueryParam as the claims see it.                          *)
(***************************************************************************)
\* the path an extra parameter addresses, and the value its text stands for
ExtraPath(key) ==
  CASE key = "extra.a.b" -> <<"a", "b">>
    [] key = "extra.a.c" -> <<"a", "c">>
    [] key = "extra.a.b.e" -> <<"a", "b", "e">>
    [] key = "extra.d" -> <<"d">>
    [] key = "extra.f.g" -> <<"f", "g">>
CoercedText(text) == IF text = "1" THEN Num(1) ELSE Str(text)
ExtraEntries == {i \in 1..Len(input.kv) : input.kv[i].k # "filter"}
\* the value at the end of the path in the object, Undef when the path is not there
RECURSIVE LeafAt(_, _)
LeafAt(obj, path) ==
  IF path = <<>> THEN obj
  ELSE IF obj.t = "obj" /\ HashHas(obj.kv, path[1])
  THEN LeafAt(HashGet(obj.kv, path[1]), Tail(path))
  ELSE Undef

\* C21: the parsed extra object holds, for each extra.<dotted.key>=value
\* parameter, the coerced value at the leaf its key addresses, for all the
\* parameters together, also when two keys share a prefix; it is undefined
\* when no such parameter is sent.
C21_ExtraHoldsEveryParam ==
  Applied =>
    /\ ExtraEntries = {} => output.extra = Undef
    /\ \A i \in ExtraEntries :
         LeafAt(output.extra, ExtraPath(input.kv[i].k)) = CoercedText(input.kv[i].v.s)

(***************************************************************************)
(* The writes as the claims see them.                                      *)
(***************************************************************************)
HasKey(obj, key) == obj.t = "obj" /\ HashHas(obj.kv, key)
Persisted == input.parsed.authPersist.kv
RouteParamFilters == input.parsed.paramsFilter
\* allowParamsOverride of the route of the operation; the creates have none
ParamsOverride ==
  \/ Ran("updateOne") /\ routeOptions.routes.updateOneBase.allowParamsOverride
  \/ Ran("replaceOne") /\ routeOptions.routes.replaceOneBase.allowParamsOverride

\* C22: in every payload handed to the storage save by createOne,
\* createMany, updateOne and replaceOne each key of authPersist has the
\* persist value; each field of a route parameter has the value of the
\* route parameter whatever the dto holds, unless allowParamsOverride is
\* enabled for the update or the replace, and then the value of the dto wins.
C22_PersistAndParamsWin ==
  \A j \in 1..Len(operation.saved) :
    LET entity == operation.saved[j] IN
      /\ \A p \in 1..Len(Persisted) :
           Get(entity, Persisted[p].k) = Persisted[p].v
      /\ \A f \in 1..Len(RouteParamFilters) :
           LET field == RouteParamFilters[f].field IN
             ~HashHas(Persisted, field) =>
               IF ParamsOverride /\ HasKey(input.dto, field)
               THEN Get(entity, field) = Get(input.dto, field)
               ELSE Get(entity, field) = RouteParamFilters[f].value

\* an update of a row whose dto names the field of the route parameter and
\* the persisted field
C22_Witness ==
  /\ Ran("updateOne") /\ ~ParamsOverride
  /\ input.dto = Obj(<<P("id", Num(9)), P("n", Str("b")), P("owner", Num(9))>>)
  /\ RouteParamFilters = IdFilter
  /\ input.parsed.authPersist = Obj1("owner", Num(7))
  /\ Len(operation.saved) = 1
  /\ HashGet(operation.saved[1].kv, "id") = Num(1)
  /\ HashGet(operation.saved[1].kv, "owner") = Num(7)
  /\ HashGet(operation.saved[1].kv, "n") = Str("b")

(***************************************************************************)
(* The operator table as the claims see it.                                *)
(***************************************************************************)
\* the comparison text of an operator that binds its value
ShapeOf(operator) ==
  CASE operator = "$eq" -> " = :" [] operator = "$ne" -> " != :" [] operator = "$gt" -> " > :"

\* C23: a field operator map with one operator compiles to the fragment of
\* the operator table for that operator whatever the value is, null
\* included: $notnull to `<field> IS NOT NULL` and $isnull to
\* `<field> IS NULL`, both without a parameter, and $ne to `<field> != :p`.
C23_OperatorShapeForAnyValue ==
  (Applied /\ input.search \in ShapeTrees) =>
    /\ output.err = NoErr
    /\ Len(output.wheres) = 1
    /\ output.wheres[1].kind = "leaf"
    /\ LET entry == output.wheres[1] IN
         CASE LeafOperator = "$notnull" ->
                entry.str = FieldText("id") \o " IS NOT NULL" /\ entry.params = <<>>
           [] LeafOperator = "$isnull" ->
                entry.str = FieldText("id") \o " IS NULL" /\ entry.params = <<>>
           [] OTHER ->
                /\ Len(entry.params) = 1
                /\ entry.params[1].v = LeafValue
                /\ entry.str = FieldText("id") \o ShapeOf(LeafOperator) \o entry.params[1].k

(***************************************************************************)
(* Nodes with $or and sibling fields as the claims see them.               *)
(***************************************************************************)
\* the node with $or and siblings of the search, and the entries of the
\* builder it is compiled on: the builder of the query, or the bracket group
\* of the parent $or
OrSiblingNode ==
  IF input.search \in OrSiblingNodes THEN input.search ELSE input.search.kv[1].v.items[1]
UnderParentOr == input.search \notin OrSiblingNodes
EnclosingEntries ==
  IF UnderParentOr THEN output.wheres[1].condition ELSE output.wheres
\* the fields the leaves of some entries compare
ComparedFields(entries) ==
  {field \in {"id", "n", "c.n", "c.id"} :
     \E entry \in LeafEntries(entries) : StartsWith(entry.str, FieldText(field) \o " = :")}
\* the fields of a search tree
RECURSIVE TreeFields(_)
TreeFields(search) ==
  UNION {IF search.kv[i].k = "$or"
         THEN UNION {TreeFields(search.kv[i].v.items[j]) :
                       j \in 1..Len(search.kv[i].v.items)}
         ELSE {search.kv[i].k} : i \in 1..Len(search.kv)}

\* C24: a node with $or and sibling fields compiles, under any inherited
\* combinator and also as a child of a parent $or, to one bracket group
\* attached with that combinator; every sibling condition and every
\* alternative of the $or is inside the group and none is attached to the
\* enclosing builder, for one alternative as for several.
C24_OrWithSiblingsIsOneGroup ==
  (Applied /\ input.search \in OrSiblingTrees) =>
    /\ output.err = NoErr
    /\ Len(output.wheres) = 1
    /\ UnderParentOr => output.wheres[1].kind = "brackets"
    /\ Len(EnclosingEntries) = IF UnderParentOr THEN 2 ELSE 1
    /\ LET group == EnclosingEntries[1] IN
         /\ group.kind = "brackets"
         /\ group.type = IF UnderParentOr THEN "or" ELSE TypeOf(input.condition)
         /\ ComparedFields(group.condition) = TreeFields(OrSiblingNode)
         /\ \A i \in 1..Len(group.condition) : group.condition[i].type = "and"

(***************************************************************************)
(* Operator maps with several operators as the claims see them.            *)
(***************************************************************************)
\* the group of the field with the operator map: the only entry of the
\* query, or the first entry of the group of the $or it is an alternative of
UnderOr == input.search \notin MultiOperatorLeaves
OperatorGroup ==
  IF UnderOr THEN output.wheres[1].condition[1] ELSE output.wheres[1]
OperatorMap ==
  IF UnderOr THEN input.search.kv[1].v.items[1].kv[1].v ELSE input.search.kv[1].v
\* the entries after the first are combined with the type; the type of the
\* first entry of a group is not read
CombinedWith(entries, type) == \A i \in 2..Len(entries) : entries[i].type = type

\* C25: a field with an operator map of several operators and no nested $or
\* compiles to one bracket group attached with the inherited combinator whose
\* operator conditions are combined with AND, under $and and under $or
\* alike; a nested $or in the operator map combines its operators with OR.
C25_OperatorsAndedInGroup ==
  /\ (Applied /\ input.search \in MultiOperatorTrees \ {NestedOrLeaf}) =>
       /\ output.err = NoErr
       /\ Len(output.wheres) = 1
       /\ OperatorGroup.kind = "brackets"
       /\ OperatorGroup.type = IF UnderOr THEN "or" ELSE TypeOf(input.condition)
       /\ Len(OperatorGroup.condition) = Len(OperatorMap.kv)
       /\ \A i \in 1..Len(OperatorGroup.condition) : OperatorGroup.condition[i].kind = "leaf"
       /\ CombinedWith(OperatorGroup.condition, "and")
  /\ (Applied /\ input.search = NestedOrLeaf) =>
       /\ output.err = NoErr
       /\ Cardinality(LeafEntries(output.wheres)) = 2
       /\ \E entry \in LeafEntries(output.wheres) : entry.type = "or"

\* the conditions of the compiled query that bind parameters, each as the
\* names it binds: the WHERE leaves in the order they were attached, then the
\* ON conditions of the joins
RECURSIVE LeafSeq(_)
LeafSeq(entries) ==
  IF entries = <<>> THEN <<>>
  ELSE (IF entries[1].kind = "leaf" THEN <<entries[1]>> ELSE LeafSeq(entries[1].condition))
         \o LeafSeq(Tail(entries))
NamesOf(params) == {params[i].k : i \in 1..Len(params)}
BoundNames ==
  LET leaves == LeafSeq(output.b.wheres)
      joined == SelectSeq(output.b.joins, LAMBDA j : j.params # <<>>)
  IN [i \in 1..Len(leaves) |-> NamesOf(leaves[i].params)]
       \o [i \in 1..Len(joined) |-> NamesOf(joined[i].params)]

\* C26: within one compiled query no bound parameter name is used by two
\* conditions: two WHERE leaves get distinct names whatever their fields and
\* the clock readings, and the ON conditions of two joins share no name.
C26_ParameterNamesDistinct ==
  (Applied /\ output.err = NoErr) =>
    \A i, j \in 1..Len(BoundNames) : i # j => BoundNames[i] \cap BoundNames[j] = {}

\* the columns selected under an alias, and the columns of a rule: the
\* primary-key columns, the persist columns and the requested columns that
\* are allowed (all allowed columns when none is requested)
ItemsOf(seq) == {seq[i] : i \in 1..Len(seq)}
SelectedUnder(prefix) ==
  {column \in ItemsOf(output.b.select) : StartsWith(column, prefix \o ".")}
AllowedOf(columns, options) ==
  {column \in ItemsOf(columns) :
     /\ column \notin ItemsOf(options.exclude)
     /\ (options.allow # <<>> => column \in ItemsOf(options.allow))}
RuleColumns(primary, requested, columns, options) ==
  ItemsOf(primary) \cup ItemsOf(options.persist)
    \cup (IF requested = <<>> THEN AllowedOf(columns, options)
          ELSE ItemsOf(requested) \cap AllowedOf(columns, options))
Prefixed(prefix, columns) == {prefix \o "." \o column : column \in columns}
RelationEntity(field) == IF field = "c" THEN "Company" ELSE "Person"
AliasOf(field) ==
  LET options == JoinOptionOf(input.options.query.join, field)
  IN IF Truthy(options.alias) THEN options.alias.s
     ELSE IF field = "c" THEN "c" ELSE "p"
SelectingJoins ==
  {i \in 1..Len(input.parsed.join) :
     LET options == JoinOptionOf(input.options.query.join, input.parsed.join[i].field)
     IN Truthy(options) /\ options.select}
RequestedOf(select) == IF isArrayFull(select) THEN select.items ELSE <<>>

Resolved == input # Undef /\ output # Undef /\ input.field \in RelationFields
RelationKnown(field) == field \in {"c", "c.p"}
DerivedName(field) == IF field = "c" THEN "c" ELSE "p"

\* C28: whatever getRelationMetadata was called with before, a call gives
\* what the relation metadata and its own options give: no relation for an
\* unknown field, else the alias of the options, the name, columns and
\* primary columns of the relation, the allowed ones of its columns and, for
\* a relation of the entity, the path under the entity alias.
C28_CacheIsMemoization ==
  Resolved =>
    IF ~RelationKnown(input.field) THEN output.val = NoRelation
    ELSE LET entity == EntityColumnsOf[RelationEntity(input.field)]
         IN /\ output.val # NoRelation
            /\ output.val.alias = input.options.alias
            /\ output.val.name = DerivedName(input.field)
            /\ output.val.columns = entity.columns
            /\ output.val.primaryColumns = entity.primaryColumns
            /\ output.val.allowedColumns
                 = SelectSeq(entity.columns,
                             LAMBDA column : column \in AllowedOf(entity.columns, input.options))
            /\ (input.field = "c"
                  => output.val.path = Str(Text(alias) \o "." \o input.field))

\* the request joined c and then c.p, and the join of c.p it attached
JoinedParentThenNested ==
  /\ served > 0 /\ outcome.err = NoErr
  /\ crudReq.join = <<JoinOf("c"), JoinOf("c.p")>>
ParentAlias ==
  LET options == JoinOptionOf(input.options.query.join, "c")
  IN IF Truthy(options.alias) THEN options.alias.s ELSE "c"
NestedAlias ==
  LET options == JoinOptionOf(input.options.query.join, "c.p")
  IN IF Truthy(options.alias) THEN options.alias.s ELSE "p"

\* C29: whatever the service was asked before, a request that joins c and
\* then c.p joins c.p on the path under the alias of its parent.
C29_NestedPathFromParent ==
  JoinedParentThenNested =>
    /\ Len(queryBuilder.joins) = 2
    /\ queryBuilder.joins[2].alias = NestedAlias
    /\ queryBuilder.joins[2].path = Str(ParentAlias \o ".p")

\* the fields of a search tree, those under $and, $or and $not included
RECURSIVE NodeFields(_)
NodeFields(search) ==
  UNION {IF search.kv[i].k \in {"$and", "$or", "$not"}
         THEN UNION {NodeFields(search.kv[i].v.items[j]) :
                       j \in 1..Len(search.kv[i].v.items)}
         ELSE {search.kv[i].k} : i \in 1..Len(search.kv)}

\* C30: a node that holds a non-empty $and or $not together with other keys
\* compiles the conditions of all its keys: every field of the node is
\* compared by a leaf of the WHERE clause.
C30_EveryKeyContributes ==
  (Applied /\ input.search \in MixedTrees) =>
    /\ output.err = NoErr
    /\ ComparedFields(output.wheres) = NodeFields(input.search)

====
